---------------------------- MODULE Spec2Model ----------------------------
(***************************************************************************)
(* Model of the challenge-response authentication library                  *)
(* (auth_chalresp.c, auth_lib.c) running as two peers, a client and a      *)
(* server, each in its own process, joined by a packet transport           *)
(* (auth_xport_udp.c).                                                     *)
(*                                                                         *)
(* Bytes are numbers: 0..255 is the literal byte of that value; a byte    *)
(* whose value the model does not compute has a code above 255 that names  *)
(* it (Lit, KeyByte, StaleByte, DigestByte; Tag tells them apart):         *)
(*   byte i of the shared key k,                                           *)
(*   byte i of a stale (uninitialised) stack slot,                         *)
(*   byte i of SHA-256(chal || key k).                                     *)
(* SHA-256 is not computed: a digest is the symbolic, collision-free value *)
(* of its input and key.                                                   *)
(***************************************************************************)
EXTENDS Integers, Sequences, FiniteSets, TLC

(***************************************************************************)
(* Bounds of the model                                                     *)
(***************************************************************************)
\* Environment perturbations per run (split bursts, transport errors, hash
\* failures, tampered frames, thread-creation failure).
MaxEnv == 1
\* auth_lib_cancel calls per run (over both sessions).
MaxCancel == 1
\* auth_lib_init calls per run of the initialisation specification.
MaxInit == 2
\* auth_xp_udp_init calls per transport handle
MaxUdpInit == 2
\* protocol workers of one session alive at the same time
MaxWorkers == 2
\* largest max_value a semaphore is created with
MaxSemValue == 2
\* hal_give_sem and hal_wait_sem calls per thread
MaxSemCalls == 2
\* datagrams a receive thread hands to the upper transport layer
MaxDatagrams == 2

(***************************************************************************)
(* Program constants                                                       *)
(***************************************************************************)
AUTH_SHA256_HASH == 32
AUTH_SHARED_KEY_LEN == 32
AUTH_CHALLENGE_LEN == 32
AUTH_CHAL_RESPONSE_LEN == AUTH_SHA256_HASH
\* CHALLENGE_RESP_SOH 0x65A2, little-endian on the wire: 0xA2 then 0x65
SOH_LO == 162
SOH_HI == 101
AUTH_CLIENT_CHAL_MSG_ID == 1
AUTH_SERVER_CHALRESP_MSG_ID == 2
AUTH_CLIENT_CHALRESP_MSG_ID == 3
AUTH_CHALRESP_RESULT_MSG_ID == 4
UDP_LINK_MTU == 1024

\* enum auth_flags (auth_lib.h)
AUTH_CONN_SERVER == 1
AUTH_CONN_CLIENT == 2
AUTH_CONN_DTLS_AUTH_METHOD == 4
AUTH_CONN_CHALLENGE_AUTH_METHOD == 8
AllFlags == 0..15

\* enum auth_status (auth_lib.h); the first enumerator is the value 0
AUTH_STATUS_STARTED == "started"
AUTH_STATUS_IN_PROCESS == "in-process"
AUTH_STATUS_CANCELED == "canceled"
AUTH_STATUS_FAILED == "failed"
AUTH_STATUS_AUTHENTICATION_FAILED == "authentication-failed"
AUTH_STATUS_SUCCESSFUL == "successful"
TerminalStatus == {AUTH_STATUS_CANCELED, AUTH_STATUS_FAILED,
                   AUTH_STATUS_AUTHENTICATION_FAILED, AUTH_STATUS_SUCCESSFUL}

\* return codes (auth_lib.h)
AUTH_SUCCESS == "AUTH_SUCCESS"
AUTH_ERROR_INVALID_PARAM == "AUTH_ERROR_INVALID_PARAM"
AUTH_ERROR_CRYPTO == "AUTH_ERROR_CRYPTO"
\* auth_xport_recv results that are not byte counts: -EAGAIN (errno 11) on a
\* timeout, and a negative value other than -EAGAIN on a fatal error
EAGAIN == -11
EIO == -5

\* Shared keys, by name: the zero-filled static chalresp_key buffer, the
\* built-in default key 0xBD84...49A8, and another key K'.
ZeroKey == 0
DefaultKey == 1
OtherKey == 2
Keys == {ZeroKey, DefaultKey, OtherKey}

\* The nonce hal_random produces, by the byte that fills all 32 positions.
\* hal_random takes its bytes from rand(), which nothing seeds: each process
\* draws the same sequence, so the client's and the server's nonce are the
\* same 32 bytes.
Nonces(p) == {0}

Peers == {"client", "server"}
Peer(p) == IF p = "client" THEN "server" ELSE "client"

(***************************************************************************)
(* Bytes, frames and the hash                                              *)
(***************************************************************************)
Lit(v) == v
KeyByte(k, i) == 1000 + 100 * k + i
StaleByte(i) == 2000 + i

NonceBytes(n) == [i \in 1..AUTH_CHALLENGE_LEN |-> Lit(n)]
KeyBytes(k) == [i \in 1..AUTH_SHARED_KEY_LEN |-> KeyByte(k, i)]
StaleBytes(n) == [i \in 1..n |-> StaleByte(i)]

\* struct chalresp_header, byte-packed
Header(soh_lo, soh_hi, msg_id) == <<Lit(soh_lo), Lit(soh_hi), Lit(msg_id)>>
HDR_LEN == 3
Hdr(b) == SubSeq(b, 1, HDR_LEN)
Body(b) == SubSeq(b, HDR_LEN + 1, Len(b))
MsgId(b) == b[3]

\* sizeof of the four packed message structs
SizeofClientChallenge == HDR_LEN + AUTH_CHALLENGE_LEN
SizeofServerChalResponse == HDR_LEN + AUTH_CHAL_RESPONSE_LEN + AUTH_CHALLENGE_LEN
SizeofClientChalResp == HDR_LEN + AUTH_CHAL_RESPONSE_LEN
SizeofResult == HDR_LEN + 1

\* A byte sequence whose last byte was altered on the link
Garbled(b) == [b EXCEPT ![Len(b)] = IF @ = Lit(0) THEN Lit(255) ELSE Lit(0)]

\* The 32-byte inputs a digest is ever made of, and an input's place among them
HashInputs == <<NonceBytes(0), Garbled(NonceBytes(0)), NonceBytes(1)>>
InputName(chal) == CHOOSE n \in DOMAIN HashInputs : HashInputs[n] = chal

\* Byte i of SHA-256(chal || key k)
DigestByte(k, i, chal) == 10000 + 1000 * InputName(chal) + 100 * k + i

\* The tag of a byte: "B" literal, "K" key, "U" stale, "H" digest
Tag(b) ==
    IF b < 256 THEN "B" ELSE IF b < 2000 THEN "K" ELSE IF b < 10000 THEN "U" ELSE "H"

\* The digest of the challenge alone, with no key in it.
HashWithoutKey(random_chal, key) ==
    [i \in 1..AUTH_SHA256_HASH |-> DigestByte(ZeroKey, i, random_chal)]

\* auth_chalresp_hash: SHA-256(random_chal || shared_key)
auth_chalresp_hash(random_chal, key) ==
    [i \in 1..AUTH_SHA256_HASH |-> DigestByte(key, i, random_chal)]

\* A check of the message id alone, the SOH not looked at
CheckIdOnly(hdr, msg_id) == hdr[3] = Lit(msg_id)

\* auth_check_msg
auth_check_msg(hdr, msg_id) ==
    ~(\/ <<hdr[1], hdr[2]>> # <<Lit(SOH_LO), Lit(SOH_HI)>>
      \/ hdr[3] # Lit(msg_id))

ClientChallengeMsg(random_chal) ==
    Header(SOH_LO, SOH_HI, AUTH_CLIENT_CHAL_MSG_ID) \o random_chal
ServerChalResponseMsg(server_response, server_challenge) ==
    Header(SOH_LO, SOH_HI, AUTH_SERVER_CHALRESP_MSG_ID)
        \o server_response \o server_challenge
\* The client's response under the header of message 2
ClientChalRespUnderId2(client_response) ==
    Header(SOH_LO, SOH_HI, AUTH_SERVER_CHALRESP_MSG_ID) \o client_response
ClientChalRespMsg(client_response) ==
    Header(SOH_LO, SOH_HI, AUTH_CLIENT_CHALRESP_MSG_ID) \o client_response
ResultMsg(result) ==
    Header(SOH_LO, SOH_HI, AUTH_CHALRESP_RESULT_MSG_ID) \o <<Lit(result)>>

(***************************************************************************)
(* auth_lib_init and its helpers, as functions of the session object and   *)
(* the process-wide key state                                              *)
(***************************************************************************)
HasFlag(flags, bit) == (flags \div bit) % 2 = 1

\* A stricter check: exactly one role and exactly one method.
CheckFlagsExactlyOne(flags) ==
    /\ HasFlag(flags, AUTH_CONN_SERVER) # HasFlag(flags, AUTH_CONN_CLIENT)
    /\ HasFlag(flags, AUTH_CONN_DTLS_AUTH_METHOD)
          # HasFlag(flags, AUTH_CONN_CHALLENGE_AUTH_METHOD)

\* auth_lib_checkflags
auth_lib_checkflags(flags) ==
    IF HasFlag(flags, AUTH_CONN_SERVER) /\ HasFlag(flags, AUTH_CONN_CLIENT)
    THEN FALSE
    ELSE IF HasFlag(flags, AUTH_CONN_DTLS_AUTH_METHOD)
            /\ HasFlag(flags, AUTH_CONN_CHALLENGE_AUTH_METHOD)
    THEN FALSE
    ELSE TRUE

\* struct authenticate_conn after memset(0)
ZeroConn ==
    [status_cb |-> FALSE, cancel_auth |-> FALSE, is_client |-> FALSE,
     curr_status |-> AUTH_STATUS_STARTED]

\* Optional parameters a caller may pass
NoParam == [param_id |-> "NULL", key |-> ZeroKey]
ChalRespParam(k) == [param_id |-> "AUTH_CHALRESP_PARAM", key |-> k]
DtlsParam == [param_id |-> "AUTH_DTLS_PARAM", key |-> ZeroKey]
OptParams == {NoParam, DtlsParam} \cup {ChalRespParam(k) : k \in {DefaultKey, OtherKey}}

\* The process-wide key state: the shared_key pointer and the chalresp_key buffer
DefaultKeyState == [shared_key |-> "default_shared_key", chalresp_key |-> ZeroKey]

\* A key lookup that ignores an override and always uses the built-in key.
BuiltInKeyOnly(ks) == DefaultKey

\* The active key: what shared_key points to
ActiveKey(ks) ==
    IF ks.shared_key = "default_shared_key" THEN DefaultKey ELSE ks.chalresp_key

\* The supplied key copied into chalresp_key, shared_key left where it points
CopyKeyOnly(ks, chal_resp) ==
    [shared_key |-> ks.shared_key, chalresp_key |-> chal_resp.key]

\* auth_init_chalresp_method
auth_init_chalresp_method(ks, chal_resp) ==
    [shared_key |-> "chalresp_key", chalresp_key |-> chal_resp.key]

\* an init that zeroes the session object before it checks its arguments
InitZeroesFirst(conn, ks, status_func, opt_params, flags) ==
    IF ~status_func \/ ~auth_lib_checkflags(flags)
    THEN [ret |-> AUTH_ERROR_INVALID_PARAM, conn |-> ZeroConn, ks |-> ks]
    ELSE [ret |-> AUTH_SUCCESS,
          conn |-> [ZeroConn EXCEPT !.status_cb = status_func,
                                    !.cancel_auth = FALSE,
                                    !.is_client = HasFlag(flags, AUTH_CONN_CLIENT)],
          ks |-> IF /\ HasFlag(flags, AUTH_CONN_CHALLENGE_AUTH_METHOD)
                    /\ opt_params.param_id = "AUTH_CHALRESP_PARAM"
                 THEN auth_init_chalresp_method(ks, opt_params)
                 ELSE ks]

\* auth_lib_init: the return value, the session object and the key state
auth_lib_init(conn, ks, status_func, opt_params, flags) ==
    IF ~status_func
    THEN [ret |-> AUTH_ERROR_INVALID_PARAM, conn |-> conn, ks |-> ks]
    ELSE IF ~auth_lib_checkflags(flags)
    THEN [ret |-> AUTH_ERROR_INVALID_PARAM, conn |-> conn, ks |-> ks]
    ELSE [ret |-> AUTH_SUCCESS,
          conn |-> [ZeroConn EXCEPT !.status_cb = status_func,
                                    !.cancel_auth = FALSE,
                                    !.is_client = HasFlag(flags, AUTH_CONN_CLIENT)],
          ks |-> IF /\ HasFlag(flags, AUTH_CONN_CHALLENGE_AUTH_METHOD)
                    /\ opt_params.param_id = "AUTH_CHALRESP_PARAM"
                 THEN auth_init_chalresp_method(ks, opt_params)
                 ELSE ks]

(***************************************************************************)
(* State                                                                   *)
(***************************************************************************)
VARIABLES
    auth_conn,   \* per peer: struct authenticate_conn
    keystate,    \* per peer (process): shared_key pointer and chalresp_key
    pc,          \* per peer: where the protocol worker is
    lv,          \* per peer: the worker's locals
    cpc,         \* per peer: where a caller of auth_lib_cancel is
    wire,        \* per peer: bursts in flight towards that peer, in order
    rxq,         \* per peer: the transport handle's receive queue (bytes)
    wireLog,     \* every frame handed to the lower transport, in order
    cbLog,       \* per peer: the status callback's invocations, in order
    observed,    \* per peer: the worker has read cancel_auth as true
    env,         \* how often each environment perturbation has happened
    api,         \* per peer: return values of the public calls made so far
    udp_xp_inst, \* the UDP transport's static pool of instances
    xport,       \* per transport handle: its context, the caller of
                 \* auth_xp_udp_init and auuth_xp_udp_deinit, its receive thread
    sem,         \* one counting semaphore of the HAL and the threads using it
    workers,     \* per peer: protocol worker threads created and still running
    srv          \* one server process with several sessions, and what an
                 \* adversary without the key has seen of it

\* the platform layers below and beside the protocol worker
platform == <<udp_xp_inst, xport, sem, workers, srv>>

vars == <<auth_conn, keystate, pc, lv, cpc, wire, rxq, wireLog, cbLog,
          observed, env, api, platform>>

\* size of the UDP transport's instance pool
NUM_AUTH_INSTANCES == 2
Slots == 1..NUM_AUTH_INSTANCES
\* transport handles of the application, each used by one thread
Handles == {"h1", "h2", "h3"}
NULL == 0

\* a zero-initialised struct udp_xp_instance
ZeroInstance ==
    [in_use |-> FALSE, xport_hdl |-> "none", send_socket_fd |-> 0,
     shutdown_rx_thread |-> FALSE]

\* a handle nobody has initialised: no context, no call in progress, no
\* receive thread
IdleHandle ==
    [context |-> NULL, pc |-> "idle", cnt |-> 0, udp_inst |-> NULL,
     ret |-> "none", recv_thrd |-> "none", xp_inst |-> NULL, calls |-> 0,
     fd |-> "none", rx_buf |-> "unallocated", queued |-> 0]

\* threads that give and take the semaphore
SemThreads == {"t1", "t2", "t3"}
\* a thread that is not in hal_wait_sem_timeout
NoTimedWait ==
    [pc |-> "idle", timeout_msec |-> 0, tv_sec |-> 0, tv_nsec |-> 0, ret |-> "none"]
NoSem ==
    [value |-> 0, max_sem_value |-> 0, sem_count_mutex |-> "free",
     thr |-> [t \in SemThreads |-> [pc |-> "idle", sem_val |-> 0, ret |-> 0, calls |-> 0]],
     timed |-> NoTimedWait]

\* the sessions a server process runs for the connections made to it
ServerSessions == {"s1", "s2"}
\* a value of the adversary's own
AdversaryChallenge == Garbled(NonceBytes(0))
\* the server process before any of its sessions has started
NoServer ==
    [draws |-> 0,
     sess |-> [s \in ServerSessions |->
                 [pc |-> "idle", random_chal |-> <<>>, status |-> "none"]],
     seen |-> {AdversaryChallenge}]

\* the platform while only the protocol workers are looked at
PlatformIdle ==
    /\ udp_xp_inst = [i \in Slots |-> ZeroInstance]
    /\ xport = [h \in Handles |-> IdleHandle]
    /\ sem = NoSem
    /\ workers = [p \in Peers |-> 0]
    /\ srv = NoServer

EnvKinds == {"split", "senderr", "rxerr", "hasherr", "tamper", "nothread"}
EnvUsed ==
    env["split"] + env["senderr"] + env["rxerr"]
        + env["hasherr"] + env["tamper"] + env["nothread"]
EnvLeft == EnvUsed < MaxEnv
Perturb(kind) == env' = [env EXCEPT ![kind] = @ + 1]

Cancels == Cardinality({p \in Peers : cpc[p] # "idle"})

NoLocals ==
    [random_chal |-> <<>>, buf |-> <<>>, len |-> 0,
     status |-> AUTH_STATUS_STARTED, arg |-> AUTH_STATUS_STARTED, ret |-> "idle"]

\* flags main.c passes for each role
MainFlags(p) ==
    (IF p = "server" THEN AUTH_CONN_SERVER ELSE AUTH_CONN_CLIENT)
        + AUTH_CONN_CHALLENGE_AUTH_METHOD

\* Each peer has called auth_lib_init with its role's flags, a status
\* callback and either no optional parameter or a challenge-response key
\* (at least one peer keeps the default key); the transport is up.
Init ==
    /\ \E kc \in {NoParam, ChalRespParam(OtherKey)},
          ks \in {NoParam, ChalRespParam(OtherKey)} :
         /\ NoParam \in {kc, ks}
         /\ LET opt == [client |-> kc, server |-> ks]
                r == [p \in Peers |->
                        auth_lib_init(ZeroConn, DefaultKeyState, TRUE, opt[p], MainFlags(p))]
            IN /\ auth_conn = [p \in Peers |-> r[p].conn]
               /\ keystate = [p \in Peers |-> r[p].ks]
               /\ api = [p \in Peers |->
                           [init |-> r[p].ret, flags |-> MainFlags(p), cb |-> TRUE,
                            opt |-> opt[p], start |-> "none", cancel |-> "none",
                            inits |-> 1]]
    /\ pc = [p \in Peers |-> "idle"]
    /\ lv = [p \in Peers |-> NoLocals]
    /\ cpc = [p \in Peers |-> "idle"]
    /\ PlatformIdle
    /\ wire = [p \in Peers |-> <<>>]
    /\ rxq = [p \in Peers |-> <<>>]
    /\ wireLog = <<>>
    /\ cbLog = [p \in Peers |-> <<>>]
    /\ observed = [p \in Peers |-> FALSE]
    /\ env = [k \in EnvKinds |-> 0]

(***************************************************************************)
(* Transport (auth_xport_send over auth_xp_udp_send, auth_xport_recv)      *)
(***************************************************************************)
\* auth_xp_udp_send succeeded: the whole frame is on its way to the peer
XportSend(p, frame) ==
    /\ wire' = [wire EXCEPT ![Peer(p)] = Append(@, [bytes |-> frame, whole |-> TRUE])]
    /\ wireLog' = Append(wireLog, [from |-> p, bytes |-> frame])
NoSend == UNCHANGED <<wire, wireLog>>

\* auth_xport_send of frame by p: it returns sizeof(frame) (ok) or -1 (sendto
\* failed, nothing transmitted)
TrySend(p, frame, ok) ==
    IF ok THEN XportSend(p, frame) /\ UNCHANGED env
          ELSE EnvLeft /\ NoSend /\ Perturb("senderr")

Min(a, b) == IF a < b THEN a ELSE b

\* The worker calls a function that ends in auth_lib_set_status(s), then goes to r
CallSetStatus(p, s, r, l) == [l EXCEPT !.status = s, !.arg = s, !.ret = r]

Goto(p, label) == pc' = [pc EXCEPT ![p] = label]

(***************************************************************************)
(* The application thread: auth_lib_start, auth_lib_cancel                 *)
(***************************************************************************)
\* auth_lib_start: hal_create_thread runs auth_chalresp_thread, or fails;
\* its status is dropped and AUTH_SUCCESS returned either way.  The thread's
\* first statement is auth_lib_set_status(AUTH_STATUS_STARTED).
auth_lib_start(p) ==
    /\ pc[p] = "idle"
    /\ api[p].init = AUTH_SUCCESS
    /\ \E created \in BOOLEAN :
         IF created
         THEN /\ Goto(p, "set_status")
              /\ lv' = [lv EXCEPT ![p] = CallSetStatus(p, AUTH_STATUS_STARTED, "hal_random", @)]
              /\ UNCHANGED env
         ELSE /\ EnvLeft
              /\ Goto(p, "no_thread")
              /\ Perturb("nothread")
              /\ UNCHANGED lv
    /\ api' = [api EXCEPT ![p].start = AUTH_SUCCESS]
    /\ UNCHANGED <<auth_conn, keystate, cpc, wire, rxq, wireLog, cbLog, observed, platform>>

\* auth_lib_cancel, first statement: auth_conn->cancel_auth = true
CancelSetFlag(p) ==
    /\ cpc[p] = "idle"
    /\ Cancels < MaxCancel
    /\ api[p].init = AUTH_SUCCESS
    /\ auth_conn' = [auth_conn EXCEPT ![p].cancel_auth = TRUE]
    /\ cpc' = [cpc EXCEPT ![p] = "set_status"]
    /\ UNCHANGED <<keystate, pc, lv, wire, rxq, wireLog, cbLog, observed, env, api, platform>>

\* auth_lib_cancel -> auth_lib_set_status: auth_conn->curr_status = status
CancelWriteStatus(p) ==
    /\ cpc[p] = "set_status"
    /\ auth_conn' = [auth_conn EXCEPT ![p].curr_status = AUTH_STATUS_CANCELED]
    /\ cpc' = [cpc EXCEPT ![p] = IF auth_conn[p].status_cb THEN "status_cb" ELSE "returned"]
    /\ api' = [api EXCEPT ![p].cancel = IF auth_conn[p].status_cb THEN @ ELSE AUTH_SUCCESS]
    /\ UNCHANGED <<keystate, pc, lv, wire, rxq, wireLog, cbLog, observed, env, platform>>

\* The value auth_lib_set_status hands to the callback: auth_conn->curr_status
\* is read again after the store, with no lock; the compiler may forward the
\* stored value or reload the field, which another thread may have written.
CallbackValues(p, stored) == {stored, auth_conn[p].curr_status}

\* auth_lib_cancel -> auth_lib_set_status: the callback, then return
CancelCallback(p) ==
    /\ cpc[p] = "status_cb"
    /\ \E v \in CallbackValues(p, AUTH_STATUS_CANCELED) :
         cbLog' = [cbLog EXCEPT ![p] =
                     Append(@, [status |-> v, call |-> AUTH_STATUS_CANCELED, by |-> "caller"])]
    /\ cpc' = [cpc EXCEPT ![p] = "returned"]
    /\ api' = [api EXCEPT ![p].cancel = AUTH_SUCCESS]
    /\ UNCHANGED <<auth_conn, keystate, pc, lv, wire, rxq, wireLog, observed, env, platform>>

(***************************************************************************)
(* The protocol worker: auth_lib_set_status, hal_random                    *)
(***************************************************************************)
\* auth_lib_set_status on the worker: auth_conn->curr_status = status
SetStatusWrite(p) ==
    /\ pc[p] = "set_status"
    /\ auth_conn' = [auth_conn EXCEPT ![p].curr_status = lv[p].arg]
    /\ Goto(p, IF auth_conn[p].status_cb THEN "status_cb" ELSE lv[p].ret)
    /\ UNCHANGED <<keystate, lv, cpc, wire, rxq, wireLog, cbLog, observed, env, api, platform>>

\* auth_lib_set_status on the worker: the callback
StatusCallback(p) ==
    /\ pc[p] = "status_cb"
    /\ \E v \in CallbackValues(p, lv[p].arg) :
         cbLog' = [cbLog EXCEPT ![p] =
                     Append(@, [status |-> v, call |-> lv[p].arg, by |-> "worker"])]
    /\ Goto(p, lv[p].ret)
    /\ UNCHANGED <<auth_conn, keystate, lv, cpc, wire, rxq, wireLog, observed, env, api, platform>>

\* auth_chalresp_server begins: hal_random(random_chal), then
\* auth_server_recv_challenge is entered
hal_random(p) ==
    /\ pc[p] = "hal_random"
    /\ ~auth_conn[p].is_client
    /\ \E n \in Nonces(p) :
         lv' = [lv EXCEPT ![p].random_chal = NonceBytes(n),
                          ![p].buf = <<>>,
                          ![p].len = SizeofClientChallenge]
    /\ Goto(p, "server_recv_challenge")
    /\ UNCHANGED <<auth_conn, keystate, cpc, wire, rxq, wireLog, cbLog, observed, env, api, platform>>

(***************************************************************************)
(* auth_xport_recv, called by the worker at each of its receive points     *)
(***************************************************************************)
\* auth_xport_recv(hdl, buf, len, AUTH_RX_TIMEOUT_MSEC): what it may return.
\* Bytes popped from the receive queue (at most len); -EAGAIN when the window
\* passes with the queue empty; or a fatal error.
auth_xport_recv(p) ==
    (IF rxq[p] # <<>>
     THEN LET n == Min(lv[p].len, Len(rxq[p]))
          IN  {[numbytes |-> n, data |-> SubSeq(rxq[p], 1, n), perturb |-> "none"]}
     ELSE {[numbytes |-> EAGAIN, data |-> <<>>, perturb |-> "none"]})
    \cup (IF EnvLeft
          THEN {[numbytes |-> EIO, data |-> <<>>, perturb |-> "rxerr"]}
          ELSE {})

\* The receive's effect on the queue, and the perturbation it counts as
Received(p, r) ==
    /\ rxq' = [rxq EXCEPT ![p] = SubSeq(@, Len(r.data) + 1, Len(@))]
    /\ IF r.perturb = "none" THEN UNCHANGED env ELSE Perturb(r.perturb)

\* What one turn of a receive loop decides after auth_xport_recv returned r:
\* "canceled", "again" (timed out), "error", "more" (frame incomplete), "done"
\* a loop turn that looks at the timeout before it looks at the flag
LoopTurnRetryFirst(p, r) ==
    IF r.numbytes = EAGAIN THEN "again"
    ELSE IF auth_conn[p].cancel_auth THEN "canceled"
    ELSE IF r.numbytes <= 0 THEN "error"
    ELSE IF lv[p].len - r.numbytes > 0 THEN "more"
    ELSE "done"

LoopTurn(p, r) ==
    IF auth_conn[p].cancel_auth THEN "canceled"
    ELSE IF r.numbytes = EAGAIN THEN "again"
    ELSE IF r.numbytes <= 0 THEN "error"
    ELSE IF lv[p].len - r.numbytes > 0 THEN "more"
    ELSE "done"

\* The bytes are in the buffer; buf += numbytes; len -= numbytes
Advance(l, r) ==
    [l EXCEPT !.buf = @ \o r.data,
              !.len = IF r.numbytes > 0 THEN @ - r.numbytes ELSE @]

Observe(p) == observed' = [observed EXCEPT ![p] = @ \/ auth_conn[p].cancel_auth]

(***************************************************************************)
(* The client: auth_chalresp_client                                        *)
(***************************************************************************)
\* The client's first step with a failed send of the challenge passed over:
\* the client goes on to wait for message 2
SendChallengeIgnoringFailure(p) ==
    /\ pc[p] = "hal_random"
    /\ auth_conn[p].is_client
    /\ \E n \in Nonces(p), ok \in BOOLEAN :
         /\ TrySend(p, ClientChallengeMsg(NonceBytes(n)), ok)
         /\ Goto(p, "client_check_cancel")
         /\ lv' = [lv EXCEPT ![p].random_chal = NonceBytes(n)]
    /\ UNCHANGED <<auth_conn, keystate, cpc, rxq, cbLog, observed, api, platform>>

\* auth_chalresp_client begins: hal_random(random_chal), then
\* auth_client_send_challenge; on failure auth_lib_set_status(FAILED)
auth_client_send_challenge(p) ==
    /\ pc[p] = "hal_random"
    /\ auth_conn[p].is_client
    /\ \E n \in Nonces(p), ok \in BOOLEAN :
         LET l == [lv[p] EXCEPT !.random_chal = NonceBytes(n)]
         IN  /\ TrySend(p, ClientChallengeMsg(l.random_chal), ok)
             /\ IF ok
                THEN Goto(p, "client_check_cancel") /\ lv' = [lv EXCEPT ![p] = l]
                ELSE /\ Goto(p, "set_status")
                     /\ lv' = [lv EXCEPT ![p] =
                                 CallSetStatus(p, AUTH_STATUS_FAILED, "done", l)]
    /\ UNCHANGED <<auth_conn, keystate, cpc, rxq, cbLog, observed, api, platform>>

\* auth_chalresp_client: the check for cancel after the challenge was sent
client_check_cancel(p) ==
    /\ pc[p] = "client_check_cancel"
    /\ Observe(p)
    /\ IF auth_conn[p].cancel_auth
       THEN Goto(p, "done") /\ UNCHANGED lv
       ELSE /\ Goto(p, "client_recv_chal_resp")
            /\ lv' = [lv EXCEPT ![p].buf = <<>>, ![p].len = SizeofServerChalResponse]
    /\ UNCHANGED <<auth_conn, keystate, cpc, wire, rxq, wireLog, cbLog, env, api, platform>>

\* auth_client_recv_chal_resp: one turn of the receive loop
client_recv_chal_resp(p) ==
    /\ pc[p] = "client_recv_chal_resp"
    /\ Observe(p)
    /\ \E r \in auth_xport_recv(p) :
         /\ Received(p, r)
         /\ LET turn == LoopTurn(p, r)
                l == Advance(lv[p], r)
            IN  CASE turn = "canceled" ->
                      /\ Goto(p, "set_status")
                      /\ lv' = [lv EXCEPT ![p] = CallSetStatus(p, AUTH_STATUS_CANCELED, "done", l)]
                  [] turn = "again" ->
                      UNCHANGED <<pc, lv>>
                  [] turn = "error" ->
                      /\ Goto(p, "set_status")
                      /\ lv' = [lv EXCEPT ![p] = CallSetStatus(p, AUTH_STATUS_FAILED, "done", l)]
                  [] turn = "more" ->
                      UNCHANGED pc /\ lv' = [lv EXCEPT ![p] = l]
                  [] turn = "done" ->
                      Goto(p, "client_verify") /\ lv' = [lv EXCEPT ![p] = l]
    /\ UNCHANGED <<auth_conn, keystate, cpc, wire, wireLog, cbLog, api, platform>>

\* The fields of the received struct server_chal_response
ServerResponseOf(b) == SubSeq(b, HDR_LEN + 1, HDR_LEN + AUTH_CHAL_RESPONSE_LEN)
\* The server's challenge with its last byte altered
GarbledChallengeOf(b) ==
    Garbled(SubSeq(b, HDR_LEN + AUTH_CHAL_RESPONSE_LEN + 1, SizeofServerChalResponse))
ServerChallengeOf(b) ==
    SubSeq(b, HDR_LEN + AUTH_CHAL_RESPONSE_LEN + 1, SizeofServerChalResponse)

\* auth_client_recv_chal_resp after the loop: check the message, verify the
\* server's response, answer the server's challenge (or report the mismatch)
client_verify(p) ==
    /\ pc[p] = "client_verify"
    /\ LET server_resp == lv[p].buf
           key == ActiveKey(keystate[p])
           hash == auth_chalresp_hash(lv[p].random_chal, key)
           client_response == auth_chalresp_hash(ServerChallengeOf(server_resp), key)
           fail(s) == /\ Goto(p, "set_status")
                      /\ lv' = [lv EXCEPT ![p] = CallSetStatus(p, s, "done", @)]
       IN  IF ~auth_check_msg(Hdr(server_resp), AUTH_SERVER_CHALRESP_MSG_ID)
           THEN fail(AUTH_STATUS_FAILED) /\ NoSend /\ UNCHANGED env
           ELSE
             \/ \* auth_chalresp_hash(random_chal) reports an error
                /\ EnvLeft /\ Perturb("hasherr") /\ NoSend
                /\ fail(AUTH_STATUS_FAILED)
             \/ /\ hash # ServerResponseOf(server_resp)
                /\ \E ok \in BOOLEAN : TrySend(p, ResultMsg(1), ok)
                /\ fail(AUTH_STATUS_AUTHENTICATION_FAILED)
             \/ /\ hash = ServerResponseOf(server_resp)
                /\ \/ \* auth_chalresp_hash(server_challenge) reports an error
                      /\ EnvLeft /\ Perturb("hasherr") /\ NoSend
                      /\ fail(AUTH_STATUS_FAILED)
                   \/ \E ok \in BOOLEAN :
                        /\ TrySend(p, ClientChalRespMsg(client_response), ok)
                        /\ IF ok
                           THEN /\ Goto(p, "client_recv_result")
                                /\ lv' = [lv EXCEPT ![p].status = AUTH_STATUS_IN_PROCESS,
                                                    ![p].buf = <<>>,
                                                    ![p].len = SizeofResult]
                           ELSE fail(AUTH_STATUS_FAILED)
    /\ UNCHANGED <<auth_conn, keystate, cpc, rxq, cbLog, observed, api, platform>>

\* auth_chalresp_client: its single auth_xport_recv of the result, the check
\* for cancel, and the checks of what was received
client_recv_result(p) ==
    /\ pc[p] = "client_recv_result"
    /\ Observe(p)
    /\ \E r \in auth_xport_recv(p) :
         /\ Received(p, r)
         /\ LET server_result == r.data
                numbytes == r.numbytes
                l == Advance(lv[p], r)
                finish(s) == /\ Goto(p, "set_status")
                             /\ lv' = [lv EXCEPT ![p] = CallSetStatus(p, s, "done", l)]
            IN  IF auth_conn[p].cancel_auth
                THEN Goto(p, "done") /\ lv' = [lv EXCEPT ![p] = l]
                ELSE IF numbytes <= 0 \/ numbytes # SizeofResult
                THEN finish(AUTH_STATUS_AUTHENTICATION_FAILED)
                ELSE IF ~auth_check_msg(Hdr(server_result), AUTH_CHALRESP_RESULT_MSG_ID)
                THEN finish(AUTH_STATUS_AUTHENTICATION_FAILED)
                ELSE IF server_result[HDR_LEN + 1] # Lit(0)
                THEN finish(AUTH_STATUS_AUTHENTICATION_FAILED)
                ELSE finish(AUTH_STATUS_SUCCESSFUL)
    /\ UNCHANGED <<auth_conn, keystate, cpc, wire, wireLog, cbLog, api, platform>>

(***************************************************************************)
(* The server: auth_chalresp_server                                        *)
(***************************************************************************)
\* auth_server_recv_msg, one turn of its loop after auth_xport_recv returned
\* r: it returns false when cancel_auth is set or the receive failed, true
\* when msglen bytes are in, and else goes round again
auth_server_recv_msg(p, r) ==
    LET turn == LoopTurn(p, r)
    IN  IF turn \in {"canceled", "error"} THEN "false"
        ELSE IF turn = "done" THEN "true"
        ELSE "loop"

\* auth_server_recv_challenge: receiving the client challenge;
\* on failure auth_chalresp_server calls auth_lib_set_status(FAILED)
server_recv_challenge(p) ==
    /\ pc[p] = "server_recv_challenge"
    /\ Observe(p)
    /\ \E r \in auth_xport_recv(p) :
         /\ Received(p, r)
         /\ LET res == auth_server_recv_msg(p, r)
                l == Advance(lv[p], r)
            IN  CASE res = "loop" ->
                      UNCHANGED pc /\ lv' = [lv EXCEPT ![p] = l]
                  [] res = "true" ->
                      Goto(p, "server_send_chal_resp") /\ lv' = [lv EXCEPT ![p] = l]
                  [] res = "false" ->
                      /\ Goto(p, "set_status")
                      /\ lv' = [lv EXCEPT ![p] = CallSetStatus(p, AUTH_STATUS_FAILED, "done", l)]
    /\ UNCHANGED <<auth_conn, keystate, cpc, wire, wireLog, cbLog, api, platform>>

\* What server_resp.server_response holds when auth_chalresp_hash failed and
\* left it unwritten: the stack slot's previous content
StaleResponses == {StaleBytes(AUTH_CHAL_RESPONSE_LEN),
                   [i \in 1..AUTH_CHAL_RESPONSE_LEN |-> Lit(0)]}

\* auth_server_recv_challenge after the receive: check the message, hash the
\* client's challenge (the hash's status is not looked at), send the response
server_send_chal_resp(p) ==
    /\ pc[p] = "server_send_chal_resp"
    /\ LET chal == lv[p].buf
           key == ActiveKey(keystate[p])
           fail == /\ Goto(p, "set_status")
                   /\ lv' = [lv EXCEPT ![p] = CallSetStatus(p, AUTH_STATUS_FAILED, "done", @)]
           next == /\ Goto(p, "server_check_cancel")
                   /\ UNCHANGED lv
       IN  IF ~auth_check_msg(Hdr(chal), AUTH_CLIENT_CHAL_MSG_ID)
           THEN fail /\ NoSend /\ UNCHANGED env
           ELSE
             \/ \E ok \in BOOLEAN :
                  /\ TrySend(p, ServerChalResponseMsg(
                                   auth_chalresp_hash(Body(chal), key),
                                   lv[p].random_chal), ok)
                  /\ IF ok THEN next ELSE fail
             \/ \* auth_chalresp_hash reports an error: the response is sent anyway
                /\ EnvLeft /\ Perturb("hasherr")
                /\ \E stale \in StaleResponses :
                     XportSend(p, ServerChalResponseMsg(stale, lv[p].random_chal))
                /\ next
    /\ UNCHANGED <<auth_conn, keystate, cpc, rxq, cbLog, observed, api, platform>>

\* auth_chalresp_server: the check for cancel after the response was sent
server_check_cancel(p) ==
    /\ pc[p] = "server_check_cancel"
    /\ Observe(p)
    /\ IF auth_conn[p].cancel_auth
       THEN Goto(p, "done") /\ UNCHANGED lv
       ELSE /\ Goto(p, "server_recv_hdr")
            /\ lv' = [lv EXCEPT ![p].buf = <<>>, ![p].len = HDR_LEN]
    /\ UNCHANGED <<auth_conn, keystate, cpc, wire, rxq, wireLog, cbLog, env, api, platform>>

\* auth_server_recv_chalresp: reading just the header; a result message means
\* the client rejected the server
server_recv_hdr(p) ==
    /\ pc[p] = "server_recv_hdr"
    /\ Observe(p)
    /\ \E r \in auth_xport_recv(p) :
         /\ Received(p, r)
         /\ LET res == auth_server_recv_msg(p, r)
                l == Advance(lv[p], r)
            IN  CASE res = "loop" ->
                      UNCHANGED pc /\ lv' = [lv EXCEPT ![p] = l]
                  [] res = "true" ->
                      IF MsgId(l.buf) = Lit(AUTH_CHALRESP_RESULT_MSG_ID)
                      THEN /\ Goto(p, "server_recv_result_body")
                           /\ lv' = [lv EXCEPT ![p] = [l EXCEPT !.len = 1]]
                      ELSE /\ Goto(p, "server_recv_body")
                           /\ lv' = [lv EXCEPT ![p] =
                                       [l EXCEPT !.len = SizeofClientChalResp - HDR_LEN]]
                  [] res = "false" ->
                      /\ Goto(p, "set_status")
                      /\ lv' = [lv EXCEPT ![p] = CallSetStatus(p, AUTH_STATUS_FAILED, "done", l)]
    /\ UNCHANGED <<auth_conn, keystate, cpc, wire, wireLog, cbLog, api, platform>>

\* The remainder of a result message, with the status taken from what
\* auth_server_recv_msg returned
ResultBodyStatusFromReturn(p) ==
    /\ pc[p] = "server_recv_result_body"
    /\ Observe(p)
    /\ \E r \in auth_xport_recv(p) :
         /\ Received(p, r)
         /\ LET l == Advance(lv[p], r)
                res == auth_server_recv_msg(p, r)
            IN  IF res = "loop"
                THEN UNCHANGED pc /\ lv' = [lv EXCEPT ![p] = l]
                ELSE /\ Goto(p, "set_status")
                     /\ lv' = [lv EXCEPT ![p] =
                                 CallSetStatus(p, IF res = "true"
                                                  THEN AUTH_STATUS_AUTHENTICATION_FAILED
                                                  ELSE AUTH_STATUS_FAILED, "done", l)]
    /\ UNCHANGED <<auth_conn, keystate, cpc, wire, wireLog, cbLog, api, platform>>

\* auth_server_recv_chalresp: the remainder of a result message; whatever
\* auth_server_recv_msg returns, the status is authentication-failed
server_recv_result_body(p) ==
    /\ pc[p] = "server_recv_result_body"
    /\ Observe(p)
    /\ \E r \in auth_xport_recv(p) :
         /\ Received(p, r)
         /\ LET l == Advance(lv[p], r)
            IN  IF auth_server_recv_msg(p, r) = "loop"
                THEN UNCHANGED pc /\ lv' = [lv EXCEPT ![p] = l]
                ELSE /\ Goto(p, "set_status")
                     /\ lv' = [lv EXCEPT ![p] =
                                 CallSetStatus(p, AUTH_STATUS_AUTHENTICATION_FAILED, "done", l)]
    /\ UNCHANGED <<auth_conn, keystate, cpc, wire, wireLog, cbLog, api, platform>>

\* auth_server_recv_chalresp: the client's response after the header
server_recv_body(p) ==
    /\ pc[p] = "server_recv_body"
    /\ Observe(p)
    /\ \E r \in auth_xport_recv(p) :
         /\ Received(p, r)
         /\ LET res == auth_server_recv_msg(p, r)
                l == Advance(lv[p], r)
            IN  CASE res = "loop" ->
                      UNCHANGED pc /\ lv' = [lv EXCEPT ![p] = l]
                  [] res = "true" ->
                      Goto(p, "server_send_result") /\ lv' = [lv EXCEPT ![p] = l]
                  [] res = "false" ->
                      /\ Goto(p, "set_status")
                      /\ lv' = [lv EXCEPT ![p] = CallSetStatus(p, AUTH_STATUS_FAILED, "done", l)]
    /\ UNCHANGED <<auth_conn, keystate, cpc, wire, wireLog, cbLog, api, platform>>

\* A result byte that is 0 whatever was compared
ResultAlwaysZero(hash, client_response) == 0

\* The result byte the server computes: 1 when the client's response differs
\* from the hash of the server's challenge, else 0 (from the memset)
ResultOf(hash, client_response) == IF hash # client_response THEN 1 ELSE 0

\* auth_server_recv_chalresp: verify the client's response, send the result;
\* auth_chalresp_server then calls auth_lib_set_status(status)
server_send_result(p) ==
    /\ pc[p] = "server_send_result"
    /\ LET client_resp == lv[p].buf
           hash == auth_chalresp_hash(lv[p].random_chal, ActiveKey(keystate[p]))
           result == ResultOf(hash, Body(client_resp))
           finish(s) == /\ Goto(p, "set_status")
                        /\ lv' = [lv EXCEPT ![p] = CallSetStatus(p, s, "done", @)]
       IN  \/ \* auth_chalresp_hash reports an error
              /\ EnvLeft /\ Perturb("hasherr") /\ NoSend
              /\ finish(AUTH_STATUS_FAILED)
           \/ \E ok \in BOOLEAN :
                /\ TrySend(p, ResultMsg(result), ok)
                /\ IF ~ok THEN finish(AUTH_STATUS_FAILED)
                   ELSE IF result = 0 THEN finish(AUTH_STATUS_SUCCESSFUL)
                   ELSE finish(AUTH_STATUS_AUTHENTICATION_FAILED)
    /\ UNCHANGED <<auth_conn, keystate, cpc, rxq, cbLog, observed, api, platform>>

(***************************************************************************)
(* The lower transport's receive side                                      *)
(***************************************************************************)
\* The frame size each message id fixes
FrameLen(id) ==
    CASE id = Lit(AUTH_CLIENT_CHAL_MSG_ID) -> SizeofClientChallenge
      [] id = Lit(AUTH_SERVER_CHALRESP_MSG_ID) -> SizeofServerChalResponse
      [] id = Lit(AUTH_CLIENT_CHALRESP_MSG_ID) -> SizeofClientChalResp
      [] id = Lit(AUTH_CHALRESP_RESULT_MSG_ID) -> SizeofResult
      [] OTHER -> 0

\* auth_message_get_fragment: the buffer holds one complete frame
auth_message_get_fragment(b) ==
    /\ Len(b) >= HDR_LEN
    /\ <<b[1], b[2]>> = <<Lit(SOH_LO), Lit(SOH_HI)>>
    /\ FrameLen(b[3]) = Len(b)

\* auth_xport_put_recv / auth_message_assemble: bytes appended to the queue
PutRecv(p, bytes) == rxq' = [rxq EXCEPT ![p] = @ \o bytes]

\* auth_xp_udp_recv, one turn of its loop: a datagram is read, checked by
\* auth_message_get_fragment and forwarded, or logged and dropped
auth_xp_udp_recv(p) ==
    /\ wire[p] # <<>>
    /\ Head(wire[p]).whole
    /\ Len(Head(wire[p]).bytes) <= UDP_LINK_MTU
    /\ IF auth_message_get_fragment(Head(wire[p]).bytes)
       THEN PutRecv(p, Head(wire[p]).bytes)
       ELSE UNCHANGED rxq
    /\ wire' = [wire EXCEPT ![p] = Tail(@)]
    /\ UNCHANGED <<auth_conn, keystate, pc, lv, cpc, wireLog, cbLog, observed, env, api, platform>>

\* Where a stream transport may cut a frame into two bursts
SplitPoints == {1, 33}

\* A stream lower transport hands the next k bytes to auth_xport_put_recv:
\* a whole frame, the first part of a frame, or the rest of a cut frame
StreamDeliver(p, k) ==
    /\ wire[p] # <<>>
    /\ LET h == Head(wire[p])
       IN  \/ /\ k = Len(h.bytes)
              /\ PutRecv(p, h.bytes)
              /\ wire' = [wire EXCEPT ![p] = Tail(@)]
              /\ UNCHANGED env
           \/ /\ h.whole
              /\ k \in SplitPoints
              /\ k < Len(h.bytes)
              /\ EnvLeft
              /\ PutRecv(p, SubSeq(h.bytes, 1, k))
              /\ wire' = [wire EXCEPT ![p] =
                            <<[bytes |-> SubSeq(h.bytes, k + 1, Len(h.bytes)),
                               whole |-> FALSE]>> \o Tail(@)]
              /\ Perturb("split")
    /\ UNCHANGED <<auth_conn, keystate, pc, lv, cpc, wireLog, cbLog, observed, api, platform>>

\* What a party on the link may put in place of a frame in flight
Forge(kind, b) ==
    CASE kind = "zero_soh" -> <<Lit(0), Lit(0)>> \o SubSeq(b, 3, Len(b))
      [] kind = "bad_id" -> <<b[1], b[2], Lit(9)>> \o SubSeq(b, 4, Len(b))
      [] kind = "bad_tail" -> Garbled(b)
ForgeKinds == {"zero_soh", "bad_id", "bad_tail"}

\* A frame in flight is replaced by a forged one, which the lower transport
\* then handles: the datagram receiver checks it with
\* auth_message_get_fragment, a stream transport forwards its bytes
Tamper(p, kind, stream) ==
    /\ wire[p] # <<>>
    /\ Head(wire[p]).whole
    /\ EnvLeft
    /\ LET forged == Forge(kind, Head(wire[p]).bytes)
       IN  IF stream \/ auth_message_get_fragment(forged)
           THEN PutRecv(p, forged)
           ELSE UNCHANGED rxq
    /\ wire' = [wire EXCEPT ![p] = Tail(@)]
    /\ Perturb("tamper")
    /\ UNCHANGED <<auth_conn, keystate, pc, lv, cpc, wireLog, cbLog, observed, api, platform>>

(***************************************************************************)
(* The specification of two sessions, one per peer                         *)
(***************************************************************************)
Next ==
    \E p \in Peers :
        \/ auth_lib_start(p)
        \/ CancelSetFlag(p)
        \/ CancelWriteStatus(p)
        \/ CancelCallback(p)
        \/ SetStatusWrite(p)
        \/ StatusCallback(p)
        \/ hal_random(p)
        \/ auth_client_send_challenge(p)
        \/ client_check_cancel(p)
        \/ client_recv_chal_resp(p)
        \/ client_verify(p)
        \/ client_recv_result(p)
        \/ server_recv_challenge(p)
        \/ server_send_chal_resp(p)
        \/ server_check_cancel(p)
        \/ server_recv_hdr(p)
        \/ server_recv_result_body(p)
        \/ server_recv_body(p)
        \/ server_send_result(p)
        \/ auth_xp_udp_recv(p)
        \/ \E k \in SplitPoints \cup {SizeofClientChallenge, SizeofServerChalResponse,
                                     SizeofResult, 2, 3, 32, 34, 66} :
              StreamDeliver(p, k)
        \/ \E kind \in ForgeKinds, stream \in BOOLEAN : Tamper(p, kind, stream)

Spec == Init /\ [][Next]_vars

(***************************************************************************)
(* The specification of auth_lib_init alone: callers pass any flags, a     *)
(* callback or NULL, and any optional parameter, to a session object that  *)
(* is zero-filled or left over from an earlier use                         *)
(***************************************************************************)
\* A session object as an earlier session left it
UsedConn ==
    [status_cb |-> TRUE, cancel_auth |-> TRUE, is_client |-> TRUE,
     curr_status |-> AUTH_STATUS_FAILED]

InitCalls == api["client"].inits + api["server"].inits

InitFresh ==
    /\ auth_conn \in [Peers -> {ZeroConn, UsedConn}]
    /\ keystate = [p \in Peers |-> DefaultKeyState]
    /\ api = [p \in Peers |->
                [init |-> "none", flags |-> 0, cb |-> FALSE, opt |-> NoParam,
                 start |-> "none", cancel |-> "none", inits |-> 0]]
    /\ pc = [p \in Peers |-> "idle"]
    /\ lv = [p \in Peers |-> NoLocals]
    /\ cpc = [p \in Peers |-> "idle"]
    /\ PlatformIdle
    /\ wire = [p \in Peers |-> <<>>]
    /\ rxq = [p \in Peers |-> <<>>]
    /\ wireLog = <<>>
    /\ cbLog = [p \in Peers |-> <<>>]
    /\ observed = [p \in Peers |-> FALSE]
    /\ env = [k \in EnvKinds |-> 0]

\* A call of auth_lib_init in process p
LibInit(p) ==
    /\ InitCalls < MaxInit
    /\ \E flags \in AllFlags, status_func \in BOOLEAN, opt_params \in OptParams :
         LET r == auth_lib_init(auth_conn[p], keystate[p], status_func, opt_params, flags)
         IN  /\ auth_conn' = [auth_conn EXCEPT ![p] = r.conn]
             /\ keystate' = [keystate EXCEPT ![p] = r.ks]
             /\ api' = [api EXCEPT ![p] =
                          [init |-> r.ret, flags |-> flags, cb |-> status_func,
                           opt |-> opt_params, start |-> "none", cancel |-> "none",
                           inits |-> @.inits + 1]]
    /\ UNCHANGED <<pc, lv, cpc, wire, rxq, wireLog, cbLog, observed, env, platform>>

NextInit == \E p \in Peers : LibInit(p)

SpecInit == InitFresh /\ [][NextInit]_vars

(***************************************************************************)
(* The specification of two sessions over a stream transport that hands    *)
(* message 2 to the client's receive queue as bursts of 33 and 34 bytes    *)
(* and every other frame whole                                             *)
(***************************************************************************)
\* Where message 2 is cut
Msg2Cut == 33

\* The stream transport hands the next burst to auth_xport_put_recv
TruncatedDeliver(p) ==
    /\ wire[p] # <<>>
    /\ LET h == Head(wire[p])
       IN  IF h.whole /\ Len(h.bytes) = SizeofServerChalResponse
           THEN /\ PutRecv(p, SubSeq(h.bytes, 1, Msg2Cut))
                /\ wire' = [wire EXCEPT ![p] =
                              <<[bytes |-> SubSeq(h.bytes, Msg2Cut + 1, Len(h.bytes)),
                                 whole |-> FALSE]>> \o Tail(@)]
           ELSE /\ PutRecv(p, h.bytes)
                /\ wire' = [wire EXCEPT ![p] = Tail(@)]
    /\ UNCHANGED <<auth_conn, keystate, pc, lv, cpc, wireLog, cbLog, observed, env, api, platform>>

NextTruncated ==
    \E p \in Peers :
        \/ auth_lib_start(p)
        \/ CancelSetFlag(p)
        \/ CancelWriteStatus(p)
        \/ CancelCallback(p)
        \/ SetStatusWrite(p)
        \/ StatusCallback(p)
        \/ hal_random(p)
        \/ auth_client_send_challenge(p)
        \/ client_check_cancel(p)
        \/ client_recv_chal_resp(p)
        \/ client_verify(p)
        \/ client_recv_result(p)
        \/ server_recv_challenge(p)
        \/ server_send_chal_resp(p)
        \/ server_check_cancel(p)
        \/ server_recv_hdr(p)
        \/ server_recv_result_body(p)
        \/ server_recv_body(p)
        \/ server_send_result(p)
        \/ TruncatedDeliver(p)

SpecTruncated == Init /\ [][NextTruncated]_vars

(***************************************************************************)
(* Vocabulary of the properties                                            *)
(***************************************************************************)
\* The frames p handed to the lower transport, in order
SentBy(p) == SelectSeq(wireLog, LAMBDA e : e.from = p)
\* The ids of all frames on the wire, in order
FrameIds == [i \in DOMAIN wireLog |-> MsgId(wireLog[i].bytes)]
IsPrefix(s, t) == Len(s) <= Len(t) /\ SubSeq(t, 1, Len(s)) = s

\* The worker thread has returned
Done(p) == pc[p] = "done"
\* The worker has chosen the session's final status (lv[p].arg) and is in, or
\* past, the auth_lib_set_status call that reports it
Decided(p) == pc[p] \in {"set_status", "status_cb", "done"} /\ lv[p].ret = "done"

NoCancel == \A p \in Peers : cpc[p] = "idle"
\* No transport error, hash failure or forged frame (receive timeouts and
\* frames cut into bursts are not faults: nothing is lost or reordered)
NoFault ==
    env["senderr"] = 0 /\ env["rxerr"] = 0 /\ env["hasherr"] = 0 /\ env["tamper"] = 0

\* The key each process was configured with at auth_lib_init
ConfiguredKey(p) ==
    IF api[p].opt.param_id = "AUTH_CHALRESP_PARAM" THEN api[p].opt.key ELSE DefaultKey
SameKey == ConfiguredKey("client") = ConfiguredKey("server")
DifferentKeys == ConfiguredKey("client") # ConfiguredKey("server")
ClientWrongKey ==
    ConfiguredKey("server") = DefaultKey /\ ConfiguredKey("client") # DefaultKey
ServerWrongKey ==
    ConfiguredKey("client") = DefaultKey /\ ConfiguredKey("server") # DefaultKey

\* The values the status callback was invoked with, and the arguments of the
\* auth_lib_set_status calls that invoked it
CallbackStatuses(p) == [i \in DOMAIN cbLog[p] |-> cbLog[p][i].status]
TerminalCalls(p) == {i \in DOMAIN cbLog[p] : cbLog[p][i].call \in TerminalStatus}
TerminalCallbacks(p) == {i \in DOMAIN cbLog[p] : cbLog[p][i].status \in TerminalStatus}

\* The ids a role ever expects, and a received header that is not acceptable
ExpectedIds(p) ==
    IF p = "client"
    THEN {Lit(AUTH_SERVER_CHALRESP_MSG_ID), Lit(AUTH_CHALRESP_RESULT_MSG_ID)}
    ELSE {Lit(AUTH_CLIENT_CHAL_MSG_ID), Lit(AUTH_CLIENT_CHALRESP_MSG_ID),
          Lit(AUTH_CHALRESP_RESULT_MSG_ID)}
BadHeader(b, p) ==
    /\ Len(b) >= HDR_LEN
    /\ \/ <<b[1], b[2]>> # <<Lit(SOH_LO), Lit(SOH_HI)>>
       \/ b[3] \notin ExpectedIds(p)

(***************************************************************************)
(* Properties                                                              *)
(***************************************************************************)
\* C1: round trip.  With the same key on both sides, no cancel and a lossless
\* in-order transport, the frames on the wire are ids 1, 2, 3, 4 in that
\* order, and once both workers have returned there are exactly four, the
\* last is the result with body 0, and both sessions are successful.
C1_RoundTrip ==
    (SameKey /\ NoCancel /\ NoFault) =>
        /\ IsPrefix(FrameIds, <<Lit(AUTH_CLIENT_CHAL_MSG_ID), Lit(AUTH_SERVER_CHALRESP_MSG_ID),
                                Lit(AUTH_CLIENT_CHALRESP_MSG_ID), Lit(AUTH_CHALRESP_RESULT_MSG_ID)>>)
        /\ (\A p \in Peers : Done(p)) =>
              /\ Len(wireLog) = 4
              /\ wireLog[4].bytes = ResultMsg(0)
              /\ \A p \in Peers : auth_conn[p].curr_status = AUTH_STATUS_SUCCESSFUL

\* C1, the run that departs from it: same key, nothing lost, nobody cancels,
\* the server ends successful and the client authentication-failed.
C1_ServerSuccessfulClientNot ==
    /\ SameKey /\ NoCancel /\ NoFault
    /\ \A p \in Peers : Done(p)
    /\ auth_conn["server"].curr_status = AUTH_STATUS_SUCCESSFUL
    /\ auth_conn["client"].curr_status = AUTH_STATUS_AUTHENTICATION_FAILED
    /\ FrameIds = <<Lit(1), Lit(2), Lit(3), Lit(4)>>

\* C2: negation.  With different keys on the two sides no session is ever
\* successful and the callback never reports successful; when moreover
\* nobody cancels and nothing fails on the way, each worker's final status is
\* authentication-failed, the client's frames are message 1 and then a
\* result frame with body 0x01, and the server, which sent only message 2,
\* made its decision on reading that result frame at the client-chal-resp step.
C2_Negation ==
    DifferentKeys =>
        /\ \A p \in Peers :
             /\ auth_conn[p].curr_status # AUTH_STATUS_SUCCESSFUL
             /\ \A i \in DOMAIN cbLog[p] : cbLog[p][i].status # AUTH_STATUS_SUCCESSFUL
        /\ (NoCancel /\ NoFault) =>
             /\ \A p \in Peers :
                  Decided(p) => lv[p].arg = AUTH_STATUS_AUTHENTICATION_FAILED
             /\ \A p \in Peers :
                  Done(p) => auth_conn[p].curr_status = AUTH_STATUS_AUTHENTICATION_FAILED
             /\ Decided("client") =>
                  /\ Len(SentBy("client")) = 2
                  /\ MsgId(SentBy("client")[1].bytes) = Lit(AUTH_CLIENT_CHAL_MSG_ID)
                  /\ SentBy("client")[2].bytes = ResultMsg(1)
                  /\ MsgId(lv["client"].buf) = Lit(AUTH_SERVER_CHALRESP_MSG_ID)
             /\ Decided("server") =>
                  /\ lv["server"].buf = ResultMsg(1)
                  /\ Len(SentBy("server")) = 1
                  /\ MsgId(SentBy("server")[1].bytes) = Lit(AUTH_SERVER_CHALRESP_MSG_ID)

\* C2, its case: the server holds the other key, nobody cancelled, nothing
\* failed, and both workers have returned with authentication-failed after
\* the client's result frame crossed the wire.
C2_BothAuthenticationFailed ==
    /\ ServerWrongKey /\ NoCancel /\ NoFault
    /\ \A p \in Peers :
         Done(p) /\ auth_conn[p].curr_status = AUTH_STATUS_AUTHENTICATION_FAILED
    /\ Len(wireLog) = 3
    /\ wireLog[3] = [from |-> "client", bytes |-> ResultMsg(1)]

\* C3: the client holds another key than the server's default key, nobody
\* cancels and nothing fails on the way.  The mismatch is found by the
\* client at message 2: the client never sends message 3, its last frame is
\* a result frame with body 0x01, and its final status is
\* authentication-failed; the server never sends a result frame, and its
\* final status is authentication-failed, decided on reading the client's
\* result frame.
C3_ClientRejectsAtMessage2 ==
    (ClientWrongKey /\ NoCancel /\ NoFault) =>
        /\ \A i \in DOMAIN wireLog :
             /\ wireLog[i].from = "server" =>
                  MsgId(wireLog[i].bytes) # Lit(AUTH_CHALRESP_RESULT_MSG_ID)
             /\ wireLog[i].from = "client" =>
                  MsgId(wireLog[i].bytes) # Lit(AUTH_CLIENT_CHALRESP_MSG_ID)
        /\ Decided("client") =>
             /\ lv["client"].arg = AUTH_STATUS_AUTHENTICATION_FAILED
             /\ MsgId(lv["client"].buf) = Lit(AUTH_SERVER_CHALRESP_MSG_ID)
             /\ wireLog[Len(wireLog)] = [from |-> "client", bytes |-> ResultMsg(1)]
        /\ Decided("server") =>
             /\ lv["server"].arg = AUTH_STATUS_AUTHENTICATION_FAILED
             /\ MsgId(lv["server"].buf) = Lit(AUTH_CHALRESP_RESULT_MSG_ID)
             /\ Body(lv["server"].buf) # <<Lit(0)>>

\* C3, its case: the client holds the other key and both workers have
\* returned, authentication-failed, with three frames on the wire.
C3_ClientWrongKeyRunEnded ==
    /\ ClientWrongKey /\ NoCancel /\ NoFault
    /\ \A p \in Peers :
         Done(p) /\ auth_conn[p].curr_status = AUTH_STATUS_AUTHENTICATION_FAILED
    /\ FrameIds = <<Lit(1), Lit(2), Lit(4)>>

\* C3 as first stated: when the client holds another key than the server's
\* default key, the server sends message 4 with a non-zero body and ends
\* authentication-failed, and the client ends authentication-failed and has
\* read message 4.
C3_ServerSendsNonZeroResult ==
    (ClientWrongKey /\ NoCancel /\ NoFault) =>
        /\ Decided("server") =>
             /\ lv["server"].arg = AUTH_STATUS_AUTHENTICATION_FAILED
             /\ \E i \in DOMAIN wireLog :
                  /\ wireLog[i].from = "server"
                  /\ MsgId(wireLog[i].bytes) = Lit(AUTH_CHALRESP_RESULT_MSG_ID)
                  /\ Body(wireLog[i].bytes) # <<Lit(0)>>
        /\ Decided("client") =>
             /\ lv["client"].arg = AUTH_STATUS_AUTHENTICATION_FAILED
             /\ MsgId(lv["client"].buf) = Lit(AUTH_CHALRESP_RESULT_MSG_ID)

\* C4: in every session, whatever the interleaving of the worker with
\* auth_lib_cancel, the status is set to a terminal value at most once (and
\* once when the worker has returned with its decision reported), the
\* callback is invoked with a terminal value at most once, and no
\* non-terminal value follows a terminal one.
C4_TerminalStatusOnce ==
    \A p \in Peers :
        /\ Cardinality(TerminalCalls(p)) <= 1
        /\ Cardinality(TerminalCallbacks(p)) <= 1
        /\ (Done(p) /\ Decided(p)) => Cardinality(TerminalCallbacks(p)) = 1
        /\ \A i, j \in DOMAIN cbLog[p] :
             (i < j /\ cbLog[p][i].status \in TerminalStatus)
                 => cbLog[p][j].status \in TerminalStatus

\* C4, the run that departs from it: a session whose status was set to two
\* terminal values, one by auth_lib_cancel and one by the worker.
C4_TwoTerminalValues ==
    \E p \in Peers :
        \E i, j \in TerminalCalls(p) :
            /\ i < j
            /\ cbLog[p][i].by # cbLog[p][j].by
            /\ cbLog[p][i].status # cbLog[p][j].status

\* C5: a worker that holds a received header with a wrong SOH or an id its
\* role never expects sends no frame from then on, and the final status it
\* chooses, unless it saw the cancellation flag, is failed.
C5_BadHeaderAborts ==
    [][\A p \in Peers :
         /\ BadHeader(lv[p].buf, p) => SentBy(p)' = SentBy(p)
         /\ (Decided(p) /\ ~observed[p] /\ BadHeader(lv[p].buf, p))'
               => lv'[p].arg = AUTH_STATUS_FAILED]_vars

\* C5, the runs that depart from it: the server holds a client-chal-resp
\* frame whose SOH or id is wrong, has sent a result frame and chose
\* successful; the client holds a result frame whose header is wrong and
\* chose authentication-failed.
C5_ServerAcceptsBadHeader ==
    /\ Decided("server")
    /\ BadHeader(lv["server"].buf, "server")
    /\ lv["server"].arg = AUTH_STATUS_SUCCESSFUL
    /\ MsgId(wireLog[Len(wireLog)].bytes) = Lit(AUTH_CHALRESP_RESULT_MSG_ID)

\* C6: a worker that has read the cancellation flag as set and has returned
\* leaves, once auth_lib_cancel has returned too, the status canceled.
C6_ObservedCancelEndsCanceled ==
    \A p \in Peers :
        (Done(p) /\ observed[p] /\ cpc[p] = "returned")
            => auth_conn[p].curr_status = AUTH_STATUS_CANCELED

\* C6, the run that departs from it: the server worker saw the flag inside
\* its receive, and the session's final status is failed.
C6_ServerCanceledEndsFailed ==
    /\ Done("server") /\ observed["server"] /\ cpc["server"] = "returned"
    /\ auth_conn["server"].curr_status = AUTH_STATUS_FAILED

\* The client worker has not yet passed its first check of the flag
BeforeFirstCheck(p) ==
    \/ pc[p] \in {"idle", "hal_random", "client_check_cancel"}
    \/ pc[p] \in {"set_status", "status_cb"} /\ lv[p].ret = "hal_random"

\* C7: a worker that has read the cancellation flag as set transmits nothing
\* from then on; a client whose flag is set before its first check has at
\* most message 1 on the wire; and when such a client has returned and
\* auth_lib_cancel has returned, the callback has been invoked with canceled.
C7_CancelStopsSending ==
    [][\A p \in Peers :
         /\ observed[p] => SentBy(p)' = SentBy(p)
         /\ (auth_conn[p].is_client /\ auth_conn[p].cancel_auth /\ BeforeFirstCheck(p))
               => Len(SentBy(p))' <= 1
         /\ (auth_conn[p].is_client /\ Done(p) /\ observed[p]
               /\ cpc[p] = "returned" /\ Len(SentBy(p)) <= 1)'
               => (\E i \in DOMAIN cbLog[p] : cbLog[p][i].status = AUTH_STATUS_CANCELED)']_vars

\* C7, the run that departs from it: the client was cancelled right after
\* start and stopped at its first check, auth_lib_cancel has returned, and
\* no invocation of the callback carried canceled.
C7_CanceledNeverEmitted ==
    /\ Done("client") /\ observed["client"] /\ cpc["client"] = "returned"
    /\ Len(SentBy("client")) <= 1
    /\ Len(cbLog["client"]) = 2
    /\ \A i \in DOMAIN cbLog["client"] : cbLog["client"][i].status # AUTH_STATUS_CANCELED

\* C8: when auth_lib_cancel has returned, the flag is set, and the call has
\* set the status to canceled and invoked the callback with canceled.
C8_CancelEmitsCanceled ==
    \A p \in Peers :
        cpc[p] = "returned" =>
            /\ auth_conn[p].cancel_auth
            /\ \E i \in DOMAIN cbLog[p] :
                 /\ cbLog[p][i].by = "caller"
                 /\ cbLog[p][i].call = AUTH_STATUS_CANCELED
                 /\ cbLog[p][i].status = AUTH_STATUS_CANCELED

\* C8, the run that departs from it: auth_lib_cancel has returned and the
\* callback it invoked was handed started, the value the worker stored
\* between the call's store and its read of the field.
C8_CancelCallbackGotStarted ==
    \E p \in Peers :
        /\ cpc[p] = "returned"
        /\ \E i \in DOMAIN cbLog[p] :
             /\ cbLog[p][i].by = "caller"
             /\ cbLog[p][i].status = AUTH_STATUS_STARTED

\* C9: auth_lib_init returns AUTH_SUCCESS only for flags with exactly one
\* role and exactly one method, and AUTH_ERROR_INVALID_PARAM for all others.
C9_InitNeedsOneRoleOneMethod ==
    \A p \in Peers :
        api[p].init # "none" =>
            /\ api[p].init = AUTH_SUCCESS => CheckFlagsExactlyOne(api[p].flags)
            /\ ~CheckFlagsExactlyOne(api[p].flags) => api[p].init = AUTH_ERROR_INVALID_PARAM

\* C9, the call that departs from it: auth_lib_init with a callback and no
\* flag at all returns AUTH_SUCCESS.
C9_InitAcceptsNoFlags ==
    \E p \in Peers : api[p].init = AUTH_SUCCESS /\ api[p].flags = 0 /\ api[p].cb

\* C10: no byte in flight between the peers is a byte of a shared key, and
\* every byte a peer has put on the link is a literal (header, nonce, result)
\* or a byte of a SHA-256(nonce || key) digest.
C10_KeyNeverTransmitted ==
    \A p \in Peers :
        \A f \in DOMAIN wire[p] :
            \A j \in DOMAIN wire[p][f].bytes :
                Tag(wire[p][f].bytes[j]) \in {"B", "H"}

\* C10, the run that departs from it: the hash of the client's challenge
\* reported failure, and the server's message 2 went out with the bytes its
\* response buffer happened to hold, which are no digest.
C10_StaleResponseSent ==
    /\ env["hasherr"] > 0
    /\ \E i \in DOMAIN wireLog :
         /\ wireLog[i].from = "server"
         /\ MsgId(wireLog[i].bytes) = Lit(AUTH_SERVER_CHALRESP_MSG_ID)
         /\ Tag(ServerResponseOf(wireLog[i].bytes)[1]) = "U"

\* The part of C10 that holds in every run, hash failures included: no byte
\* in flight is a byte of a shared key.
NoKeyByteInFlight ==
    \A p \in Peers :
        \A f \in DOMAIN wire[p] :
            \A j \in DOMAIN wire[p][f].bytes :
                Tag(wire[p][f].bytes[j]) # "K"


\* The result frames p has handed to the lower transport
ResultFramesBy(p) ==
    {i \in DOMAIN wireLog :
        wireLog[i].from = p /\ MsgId(wireLog[i].bytes) = Lit(AUTH_CHALRESP_RESULT_MSG_ID)}

\* C11: the server at message 3.  In the step in which the server, having
\* received the client's response in full, compares it and answers (with the
\* hash computed and the send accepted), it has sent no result frame before
\* and sends exactly one now: body non-zero and final status
\* authentication-failed when the response differs from SHA-256(N_s || K),
\* body 0 and final status successful when it matches.  The server sends a
\* result frame in no other step.
C11_ServerVerdictAtMessage3 ==
    [][/\ (/\ pc["server"] = "server_send_result"
           /\ pc'["server"] # "server_send_result"
           /\ env' = env) =>
             LET hash == auth_chalresp_hash(lv["server"].random_chal,
                                            ActiveKey(keystate["server"]))
                 differs == Body(lv["server"].buf) # hash
                 sent == wireLog'[Len(wireLog')]
             IN  /\ ResultFramesBy("server") = {}
                 /\ Len(wireLog') = Len(wireLog) + 1
                 /\ SubSeq(wireLog', 1, Len(wireLog)) = wireLog
                 /\ sent.from = "server"
                 /\ Len(sent.bytes) = SizeofResult
                 /\ auth_check_msg(Hdr(sent.bytes), AUTH_CHALRESP_RESULT_MSG_ID)
                 /\ (sent.bytes[HDR_LEN + 1] # Lit(0)) <=> differs
                 /\ lv'["server"].ret = "done"
                 /\ lv'["server"].arg =
                        IF differs THEN AUTH_STATUS_AUTHENTICATION_FAILED
                                   ELSE AUTH_STATUS_SUCCESSFUL
       /\ (ResultFramesBy("server")' # ResultFramesBy("server")) =>
             pc["server"] = "server_send_result"]_vars

\* C11 witness: the server found the client's response wrong, sent a result
\* frame with body 1 and chose authentication-failed
C11_ServerSentNonZeroResult ==
    /\ Decided("server")
    /\ lv["server"].arg = AUTH_STATUS_AUTHENTICATION_FAILED
    /\ \E i \in ResultFramesBy("server") : wireLog[i].bytes = ResultMsg(1)

\* The frames with the given id that p has handed to the lower transport
FramesBy(p, id) ==
    {i \in DOMAIN wireLog : wireLog[i].from = p /\ MsgId(wireLog[i].bytes) = Lit(id)}

\* C12: the client at message 2.  In the step in which the client, holding a
\* whole frame with the header of message 2, verifies the server's response
\* and answers (with its hashes computed and the send accepted): when the
\* response differs from SHA-256(N_c || K) it sends exactly one frame, a
\* result with non-zero body, and chooses authentication-failed as its final
\* status; when it matches, it sends exactly one frame, message 3 carrying
\* SHA-256(N_s || K) for the N_s in the last 32 bytes of the received frame,
\* and goes on to wait for the result.  A client that sent a result frame
\* never sends, or has sent, message 3.
C12_ClientVerdictAtMessage2 ==
    [][/\ (/\ pc["client"] = "client_verify"
           /\ pc'["client"] # "client_verify"
           /\ auth_check_msg(Hdr(lv["client"].buf), AUTH_SERVER_CHALRESP_MSG_ID)
           /\ env' = env) =>
             LET key == ActiveKey(keystate["client"])
                 received == lv["client"].buf
                 differs ==
                     SubSeq(received, HDR_LEN + 1, HDR_LEN + AUTH_CHAL_RESPONSE_LEN)
                         # auth_chalresp_hash(lv["client"].random_chal, key)
                 N_s == SubSeq(received, SizeofServerChalResponse - AUTH_CHALLENGE_LEN + 1,
                               SizeofServerChalResponse)
                 sent == wireLog'[Len(wireLog')]
             IN  /\ Len(wireLog') = Len(wireLog) + 1
                 /\ SubSeq(wireLog', 1, Len(wireLog)) = wireLog
                 /\ sent.from = "client"
                 /\ IF differs
                    THEN /\ Len(sent.bytes) = SizeofResult
                         /\ auth_check_msg(Hdr(sent.bytes), AUTH_CHALRESP_RESULT_MSG_ID)
                         /\ sent.bytes[HDR_LEN + 1] # Lit(0)
                         /\ lv'["client"].ret = "done"
                         /\ lv'["client"].arg = AUTH_STATUS_AUTHENTICATION_FAILED
                    ELSE /\ sent.bytes = ClientChalRespMsg(auth_chalresp_hash(N_s, key))
                         /\ pc'["client"] = "client_recv_result"
       /\ ~(/\ FramesBy("client", AUTH_CHALRESP_RESULT_MSG_ID)' # {}
            /\ FramesBy("client", AUTH_CLIENT_CHALRESP_MSG_ID)' # {})]_vars

\* C12 witness: the client found the server's response wrong, sent its result
\* frame and no message 3, and has returned
C12_ClientSentResultNotMessage3 ==
    /\ Done("client")
    /\ lv["client"].arg = AUTH_STATUS_AUTHENTICATION_FAILED
    /\ FramesBy("client", AUTH_CHALRESP_RESULT_MSG_ID) # {}
    /\ FramesBy("client", AUTH_CLIENT_CHALRESP_MSG_ID) = {}

\* The places in wireLog of the frames p handed to the lower transport
SentIndexes(p) == {i \in DOMAIN wireLog : wireLog[i].from = p}

\* C13: the server at step 3.  The server reads the remainder of a result
\* message only after it has read a 3-byte header whose id is result (4), and
\* a header with that id always takes it there.  From then on the server
\* sends no frame, and it leaves the read with authentication-failed as its
\* final status whatever the result byte is and whatever the read returned;
\* when the read was neither failed nor canceled, the result byte has been
\* taken from the receive queue.
C13_ResultAtStep3 ==
    [][/\ (pc["server"] # "server_recv_result_body"
              /\ pc'["server"] = "server_recv_result_body") =>
             /\ pc["server"] = "server_recv_hdr"
             /\ Len(lv'["server"].buf) = HDR_LEN
             /\ MsgId(lv'["server"].buf) = Lit(AUTH_CHALRESP_RESULT_MSG_ID)
       /\ (pc["server"] = "server_recv_hdr" /\ pc'["server"] = "server_recv_body") =>
             MsgId(lv'["server"].buf) # Lit(AUTH_CHALRESP_RESULT_MSG_ID)
       /\ (pc["server"] = "server_recv_result_body") =>
             /\ SentIndexes("server")' = SentIndexes("server")
             /\ pc'["server"] \in {"server_recv_result_body", "set_status"}
       /\ (pc["server"] = "server_recv_result_body" /\ pc'["server"] = "set_status") =>
             /\ lv'["server"].arg = AUTH_STATUS_AUTHENTICATION_FAILED
             /\ lv'["server"].ret = "done"
             /\ (env' = env /\ ~auth_conn["server"].cancel_auth) =>
                   /\ rxq["server"] # <<>>
                   /\ rxq'["server"] = Tail(rxq["server"])
                   /\ lv'["server"].buf = lv["server"].buf \o <<Head(rxq["server"])>>
       /\ Decided("server") => SentIndexes("server")' = SentIndexes("server")]_vars

\* C13 witness: the server read a result message whose result byte is 0 and
\* chose authentication-failed
C13_ServerReadZeroResult ==
    /\ Decided("server")
    /\ Len(lv["server"].buf) = SizeofResult
    /\ MsgId(lv["server"].buf) = Lit(AUTH_CHALRESP_RESULT_MSG_ID)
    /\ lv["server"].buf[HDR_LEN + 1] = Lit(0)
    /\ lv["server"].arg = AUTH_STATUS_AUTHENTICATION_FAILED
    /\ ~auth_conn["server"].cancel_auth

\* The worker's blocking receives: server message 1, message 3 header,
\* message 3 body (or result byte); client message 2 and message 4
ReceivePoints ==
    {"server_recv_challenge", "server_recv_hdr", "server_recv_body",
     "server_recv_result_body", "client_recv_chal_resp", "client_recv_result"}

\* C14: a receive that times out (the queue is empty when the window passes,
\* and the receive reports no error) while the cancellation flag is clear
\* leaves the worker at the same receive; a receive that reports an error
\* takes the worker to a terminal status.
C14_TimeoutIsRetried ==
    [][\A p \in Peers :
          (pc[p] \in ReceivePoints /\ ~auth_conn[p].cancel_auth) =>
             /\ (rxq[p] = <<>> /\ env' = env) => pc'[p] = pc[p]
             /\ (env'["rxerr"] # env["rxerr"] /\ pc'[p] # pc[p]) =>
                   /\ pc'[p] = "set_status"
                   /\ lv'[p].ret = "done"
                   /\ lv'[p].arg \in TerminalStatus]_vars

\* C14 witness: the client sent message 3, its one receive of message 4 timed
\* out with nothing read, no error and no cancel, and it chose
\* authentication-failed
C14_ClientGaveUpOnTimeout ==
    /\ Decided("client")
    /\ FramesBy("client", AUTH_CLIENT_CHALRESP_MSG_ID) # {}
    /\ lv["client"].buf = <<>>
    /\ lv["client"].arg = AUTH_STATUS_AUTHENTICATION_FAILED
    /\ env["rxerr"] = 0
    /\ ~auth_conn["client"].cancel_auth

\* The part of C14 that holds: at every receive other than the client's
\* receive of message 4, a timeout with the flag clear is retried
TimeoutRetriedInLoops ==
    [][\A p \in Peers :
          (/\ pc[p] \in ReceivePoints \ {"client_recv_result"}
           /\ ~auth_conn[p].cancel_auth
           /\ rxq[p] = <<>>
           /\ env' = env) => pc'[p] = pc[p]]_vars

\* C15: a receive that returns some bytes, but fewer than are still missing
\* from the expected frame, while the cancellation flag is clear, leaves the
\* worker at the same receive with the bytes appended to its buffer and the
\* missing length reduced by as many.
C15_ShortReadIsContinued ==
    [][\A p \in Peers :
          (/\ pc[p] \in ReceivePoints
           /\ ~auth_conn[p].cancel_auth
           /\ Len(rxq'[p]) < Len(rxq[p])
           /\ Len(rxq[p]) < lv[p].len) =>
             /\ pc'[p] = pc[p]
             /\ lv'[p].buf = lv[p].buf \o rxq[p]
             /\ lv'[p].len = lv[p].len - Len(rxq[p])]_vars

\* C15 witness: the client sent message 3, its receive of message 4 returned
\* the first byte of the result frame only, and with no cancel the client
\* chose authentication-failed
C15_ClientGaveUpOnShortRead ==
    /\ Decided("client")
    /\ FramesBy("client", AUTH_CLIENT_CHALRESP_MSG_ID) # {}
    /\ Len(lv["client"].buf) = 1
    /\ lv["client"].arg = AUTH_STATUS_AUTHENTICATION_FAILED
    /\ ~auth_conn["client"].cancel_auth

\* The part of C15 that holds: at every receive other than the client's
\* receive of message 4, a short read is continued into the same buffer
ShortReadContinuedInLoops ==
    [][\A p \in Peers :
          (/\ pc[p] \in ReceivePoints \ {"client_recv_result"}
           /\ ~auth_conn[p].cancel_auth
           /\ Len(rxq'[p]) < Len(rxq[p])
           /\ Len(rxq[p]) < lv[p].len) =>
             /\ pc'[p] = pc[p]
             /\ lv'[p].buf = lv[p].buf \o rxq[p]
             /\ lv'[p].len = lv[p].len - Len(rxq[p])]_vars

\* Nothing has disturbed the run: no error, no altered frame, no cancel
Undisturbed == NoFault /\ env["nothread"] = 0 /\ NoCancel

\* C16: truncated receive of message 2 (under SpecTruncated: message 2
\* reaches the client's receive queue as bursts of 33 and 34 bytes).  With
\* the same key on both sides, no cancel and no error, once both workers
\* have returned the client has sent message 3 and both sessions are
\* successful.
C16_TruncatedMessage2Completes ==
    (SameKey /\ Undisturbed /\ Done("client") /\ Done("server")) =>
        /\ FramesBy("client", AUTH_CLIENT_CHALRESP_MSG_ID) # {}
        /\ lv["client"].arg = AUTH_STATUS_SUCCESSFUL
        /\ lv["server"].arg = AUTH_STATUS_SUCCESSFUL

\* C16 witness: message 2 came in two bursts, the client reassembled it and
\* sent message 3, the server is successful and the client is not
C16_ReassembledButNotSuccessful ==
    /\ SameKey /\ Undisturbed
    /\ Done("client") /\ Done("server")
    /\ FramesBy("client", AUTH_CLIENT_CHALRESP_MSG_ID) # {}
    /\ lv["server"].arg = AUTH_STATUS_SUCCESSFUL
    /\ lv["client"].arg = AUTH_STATUS_AUTHENTICATION_FAILED

\* The part of C16 that holds (under SpecTruncated): the client takes the
\* first burst alone into its buffer, reassembles the two bursts into the
\* frame the server sent before it verifies, and sends message 3; the server
\* is successful
TruncatedMessage2Reassembled ==
    (SameKey /\ Undisturbed) =>
        /\ pc["client"] = "client_recv_chal_resp" =>
              Len(lv["client"].buf) \in {0, Msg2Cut}
        /\ pc["client"] = "client_verify" =>
              \E i \in FramesBy("server", AUTH_SERVER_CHALRESP_MSG_ID) :
                  lv["client"].buf = wireLog[i].bytes
        /\ (Done("client") /\ Done("server")) =>
              /\ FramesBy("client", AUTH_CLIENT_CHALRESP_MSG_ID) # {}
              /\ lv["server"].arg = AUTH_STATUS_SUCCESSFUL

\* The SOH of a received frame is not 0x65A2
BadSoh(b) == Len(b) >= HDR_LEN /\ <<b[1], b[2]>> # <<Lit(SOH_LO), Lit(SOH_HI)>>

\* C17: bad SOH at message 2.  When the 67 bytes the client has received in
\* place of message 2 start with an SOH other than 0x65A2, the client's next
\* step chooses failed as the final status and sends nothing; the client has
\* then sent neither a result frame nor message 3, and it sends nothing once
\* its final status is chosen.
C17_BadSohAtMessage2 ==
    [][/\ (/\ pc["client"] = "client_verify"
           /\ pc'["client"] # "client_verify"
           /\ BadSoh(lv["client"].buf)) =>
             /\ pc'["client"] = "set_status"
             /\ lv'["client"].arg = AUTH_STATUS_FAILED
             /\ lv'["client"].ret = "done"
             /\ wireLog' = wireLog
             /\ FramesBy("client", AUTH_CHALRESP_RESULT_MSG_ID) = {}
             /\ FramesBy("client", AUTH_CLIENT_CHALRESP_MSG_ID) = {}
       /\ Decided("client") => SentIndexes("client")' = SentIndexes("client")]_vars

\* C17 witness: the client received 67 bytes with SOH 0x0000 and the id of
\* message 2, and chose failed
C17_ClientFailedOnZeroSoh ==
    /\ Decided("client")
    /\ Len(lv["client"].buf) = SizeofServerChalResponse
    /\ Hdr(lv["client"].buf) = <<Lit(0), Lit(0), Lit(AUTH_SERVER_CHALRESP_MSG_ID)>>
    /\ lv["client"].arg = AUTH_STATUS_FAILED
    /\ ~auth_conn["client"].cancel_auth

\* C18: at every invocation of the status callback, the current-status field
\* holds the value of the status change being reported, and the invocation is
\* made by the session's protocol worker.
C18_CallbackOnWorkerAfterStore ==
    [][\A p \in Peers :
          cbLog'[p] # cbLog[p] =>
             LET entered == cbLog'[p][Len(cbLog'[p])]
             IN  /\ entered.by = "worker"
                 /\ auth_conn[p].curr_status = entered.call]_vars

\* C18 witness: a status callback was invoked on the thread that called
\* auth_lib_cancel
C18_CallbackOnCallerThread ==
    \E p \in Peers : \E i \in DOMAIN cbLog[p] : cbLog[p][i].by = "caller"

\* The part of C18 that holds: in a session whose auth_lib_cancel is never
\* called, every callback is made by the worker with the field already
\* holding the new value
CallbackAfterStoreWithoutCancel ==
    [][\A p \in Peers :
          (cbLog'[p] # cbLog[p] /\ cpc[p] = "idle") =>
             LET entered == cbLog'[p][Len(cbLog'[p])]
             IN  /\ entered.by = "worker"
                 /\ auth_conn[p].curr_status = entered.call]_vars

\* The ids each role emits
EmittedIds(p) ==
    IF p = "client"
    THEN {AUTH_CLIENT_CHAL_MSG_ID, AUTH_CLIENT_CHALRESP_MSG_ID, AUTH_CHALRESP_RESULT_MSG_ID}
    ELSE {AUTH_SERVER_CHALRESP_MSG_ID, AUTH_CHALRESP_RESULT_MSG_ID}

\* C19: every frame a worker handed to the transport starts with SOH 0x65A2,
\* carries an id its role emits (client 1, 3, 4; server 2, 4), and has the
\* length its id fixes: 35, 67, 35 and 4 bytes.
C19_FramesWellFormed ==
    \A i \in DOMAIN wireLog :
        LET frame == wireLog[i].bytes
        IN  /\ Len(frame) >= HDR_LEN
            /\ <<frame[1], frame[2]>> = <<Lit(162), Lit(101)>>
            /\ \E id \in EmittedIds(wireLog[i].from) :
                 /\ MsgId(frame) = Lit(id)
                 /\ Len(frame) = CASE id = 1 -> 35 [] id = 2 -> 67
                                   [] id = 3 -> 35 [] id = 4 -> 4

\* C19 witness: frames of all four ids have been emitted, the result by the
\* server
C19_AllFourIdsEmitted ==
    /\ FramesBy("client", AUTH_CLIENT_CHAL_MSG_ID) # {}
    /\ FramesBy("server", AUTH_SERVER_CHALRESP_MSG_ID) # {}
    /\ FramesBy("client", AUTH_CLIENT_CHALRESP_MSG_ID) # {}
    /\ FramesBy("server", AUTH_CHALRESP_RESULT_MSG_ID) # {}

InitKeyRules ==
    [][\A p \in Peers :
          api'[p].inits # api[p].inits =>
             IF /\ api'[p].init = AUTH_SUCCESS
                /\ HasFlag(api'[p].flags, AUTH_CONN_CHALLENGE_AUTH_METHOD)
                /\ api'[p].opt.param_id = "AUTH_CHALRESP_PARAM"
             THEN /\ keystate'[p].shared_key = "chalresp_key"
                  /\ keystate'[p].chalresp_key = api'[p].opt.key
                  /\ ActiveKey(keystate'[p]) = api'[p].opt.key
             ELSE keystate'[p] = keystate[p]]_vars

\* The negative return values of the public calls
NegativeReturns == {AUTH_ERROR_INVALID_PARAM, AUTH_ERROR_CRYPTO}

\* C21: a public session call that has returned gave 0 (AUTH_SUCCESS) or a
\* negative value, and auth_lib_start gave 0 only when a worker was spawned:
\* where the worker thread could not be created it gave a negative value.
C21_StartReportsThreadFailure ==
    \A p \in Peers :
        /\ api[p].init \in {"none", AUTH_SUCCESS} \cup NegativeReturns
        /\ api[p].cancel \in {"none", AUTH_SUCCESS} \cup NegativeReturns
        /\ api[p].start \in {"none", AUTH_SUCCESS} \cup NegativeReturns
        /\ pc[p] = "no_thread" => api[p].start \in NegativeReturns

\* C21 witness: hal_create_thread failed, no worker runs, and auth_lib_start
\* returned AUTH_SUCCESS
C21_StartSucceededWithoutWorker ==
    \E p \in Peers :
        /\ pc[p] = "no_thread"
        /\ api[p].start = AUTH_SUCCESS
        /\ cbLog[p] = <<>>

\* C22: a failed send is fatal.  In the step in which a worker's send fails,
\* nothing is handed to the transport and the worker goes to report a final
\* status: authentication-failed when the send was the client's rejection
\* result at message 2, failed otherwise.  Once a worker's final status is
\* chosen it sends nothing more.
C22_FailedSendIsFatal ==
    [][\A p \in Peers :
          /\ (env'["senderr"] # env["senderr"] /\ pc'[p] # pc[p]) =>
                /\ wireLog' = wireLog
                /\ wire' = wire
                /\ pc'[p] = "set_status"
                /\ lv'[p].ret = "done"
                /\ lv'[p].arg =
                       IF /\ pc[p] = "client_verify"
                          /\ ServerResponseOf(lv[p].buf)
                                # auth_chalresp_hash(lv[p].random_chal, ActiveKey(keystate[p]))
                       THEN AUTH_STATUS_AUTHENTICATION_FAILED
                       ELSE AUTH_STATUS_FAILED
          /\ Decided(p) => SentIndexes(p)' = SentIndexes(p)]_vars

\* C22 witness: the client's send of message 1 failed; it has sent nothing
\* and chose failed
C22_ChallengeSendFailed ==
    /\ env["senderr"] > 0
    /\ Decided("client")
    /\ SentIndexes("client") = {}
    /\ lv["client"].arg = AUTH_STATUS_FAILED
    /\ ~auth_conn["client"].cancel_auth

\* C23: a failed hash is fatal.  In the step in which a worker's hash
\* computation reports failure, nothing is handed to the transport and the
\* worker goes to report failed as its final status.
C23_FailedHashIsFatal ==
    [][\A p \in Peers :
          (env'["hasherr"] # env["hasherr"] /\ pc'[p] # pc[p]) =>
             /\ wireLog' = wireLog
             /\ pc'[p] = "set_status"
             /\ lv'[p].ret = "done"
             /\ lv'[p].arg = AUTH_STATUS_FAILED]_vars

\* C23 witness: the server's hash of the client's challenge failed, and the
\* server has sent message 2 all the same and waits for message 3
C23_ServerWentOnAfterFailedHash ==
    /\ env["hasherr"] > 0
    /\ pc["server"] \in {"server_check_cancel", "server_recv_hdr"}
    /\ \E i \in FramesBy("server", AUTH_SERVER_CHALRESP_MSG_ID) :
         ServerResponseOf(wireLog[i].bytes) \in StaleResponses

\* The part of C23 that holds: a failed hash in the client, or in the server
\* at message 3, sends nothing and ends the session failed
FailedHashIsFatalElsewhere ==
    [][\A p \in Peers :
          (/\ env'["hasherr"] # env["hasherr"]
           /\ pc'[p] # pc[p]
           /\ pc[p] # "server_send_chal_resp") =>
             /\ wireLog' = wireLog
             /\ pc'[p] = "set_status"
             /\ lv'[p].ret = "done"
             /\ lv'[p].arg = AUTH_STATUS_FAILED]_vars

(***************************************************************************)
(* The UDP lower transport: instance pool, init, deinit, receive thread    *)
(***************************************************************************)
AUTH_ERROR_NO_RESOURCE == "AUTH_ERROR_NO_RESOURCE"

UdpStep(h, r) ==
    /\ xport' = [xport EXCEPT ![h] = r]
    /\ UNCHANGED <<auth_conn, keystate, pc, lv, cpc, wire, rxq, wireLog, cbLog,
                   observed, env, api, sem, workers, srv>>

\* auth_xp_udp_init is entered, for the first time on this handle or again
\* after a refusal: the scan of the pool starts at its first slot
auth_xp_udp_init(h) ==
    /\ xport[h].pc \in {"idle", "returned"}
    /\ xport[h].calls < MaxUdpInit
    /\ UdpStep(h, [xport[h] EXCEPT !.pc = "get_instance", !.cnt = 1,
                                   !.ret = "none", !.calls = @ + 1])
    /\ UNCHANGED udp_xp_inst

\* a scan that hands out the first slot when it finds none free
GetInstanceNeverRefuses(h) ==
    /\ xport[h].pc = "get_instance"
    /\ LET cnt == xport[h].cnt
       IN IF cnt > NUM_AUTH_INSTANCES
          THEN UdpStep(h, [xport[h] EXCEPT !.pc = "mark", !.cnt = 1])
          ELSE IF ~udp_xp_inst[cnt].in_use
               THEN UdpStep(h, [xport[h] EXCEPT !.pc = "mark"])
               ELSE UdpStep(h, [xport[h] EXCEPT !.cnt = cnt + 1])
    /\ UNCHANGED udp_xp_inst

\* one turn of the scan: the test of in_use; past the last slot the scan
\* returns NULL and auth_xp_udp_init returns the no-resource error
auth_xp_udp_get_instance(h) ==
    /\ xport[h].pc = "get_instance"
    /\ LET cnt == xport[h].cnt
       IN IF cnt > NUM_AUTH_INSTANCES
          THEN UdpStep(h, [xport[h] EXCEPT !.pc = "returned",
                                           !.ret = AUTH_ERROR_NO_RESOURCE])
          ELSE IF ~udp_xp_inst[cnt].in_use
               THEN UdpStep(h, [xport[h] EXCEPT !.pc = "mark"])
               ELSE UdpStep(h, [xport[h] EXCEPT !.cnt = cnt + 1])
    /\ UNCHANGED udp_xp_inst

\* the store in_use = true that follows a test that found the slot free
get_instance_mark(h) ==
    /\ xport[h].pc = "mark"
    /\ udp_xp_inst' = [udp_xp_inst EXCEPT ![xport[h].cnt].in_use = TRUE]
    /\ UdpStep(h, [xport[h] EXCEPT !.pc = "setup", !.udp_inst = xport[h].cnt])

\* auth_xp_udp_init fills the instance, opens the send socket and sets the
\* handle's context
udp_init_setup(h) ==
    /\ xport[h].pc = "setup"
    /\ udp_xp_inst' = [udp_xp_inst EXCEPT ![xport[h].udp_inst] =
                          [@ EXCEPT !.shutdown_rx_thread = FALSE, !.xport_hdl = h,
                                    !.send_socket_fd = 1]]
    /\ UdpStep(h, [xport[h] EXCEPT !.pc = "create_thread",
                                   !.context = xport[h].udp_inst])

\* hal_create_thread for the receive thread; its status is not looked at
udp_init_create_thread(h) ==
    /\ xport[h].pc = "create_thread"
    /\ \E created \in BOOLEAN :
          UdpStep(h, [xport[h] EXCEPT !.pc = "inited", !.ret = AUTH_SUCCESS,
                                      !.recv_thrd = IF created THEN "created" ELSE "none"])
    /\ UNCHANGED udp_xp_inst

\* the receive thread starts: it reads the handle's context and binds its
\* own socket
udp_recv_start(h) ==
    /\ xport[h].recv_thrd = "created"
    /\ IF xport[h].context = NULL
       THEN UdpStep(h, [xport[h] EXCEPT !.recv_thrd = "exited"])
       ELSE \E bound \in BOOLEAN :
               UdpStep(h, [xport[h] EXCEPT !.xp_inst = xport[h].context,
                                           !.recv_thrd = IF bound THEN "loop" ELSE "exited"])
    /\ UNCHANGED udp_xp_inst

\* while (!xp_inst->shutdown_rx_thread): the test, then the blocking recvfrom
udp_recv_loop(h) ==
    /\ xport[h].recv_thrd = "loop"
    /\ UdpStep(h, [xport[h] EXCEPT !.recv_thrd =
                      IF udp_xp_inst[xport[h].xp_inst].shutdown_rx_thread
                      THEN "exited" ELSE "recvfrom"])
    /\ UNCHANGED udp_xp_inst

\* recvfrom returns, with a datagram or with an error
udp_recv_datagram(h) ==
    /\ xport[h].recv_thrd = "recvfrom"
    /\ UdpStep(h, [xport[h] EXCEPT !.recv_thrd = "loop"])
    /\ UNCHANGED udp_xp_inst

\* auuth_xp_udp_deinit, first statements: the instance is read from the
\* handle's context and its shutdown flag is set
auuth_xp_udp_deinit(h) ==
    /\ xport[h].pc = "inited"
    /\ udp_xp_inst' = [udp_xp_inst EXCEPT ![xport[h].context].shutdown_rx_thread = TRUE]
    /\ UdpStep(h, [xport[h] EXCEPT !.pc = "deinit_close", !.udp_inst = xport[h].context])

\* the send socket is closed
udp_deinit_close(h) ==
    /\ xport[h].pc = "deinit_close"
    /\ udp_xp_inst' = [udp_xp_inst EXCEPT ![xport[h].udp_inst].send_socket_fd = 0]
    /\ UdpStep(h, [xport[h] EXCEPT !.pc = "deinit_free"])

auth_xp_udp_free_instance(h) ==
    /\ xport[h].pc = "deinit_free"
    /\ udp_xp_inst' = [udp_xp_inst EXCEPT ![xport[h].udp_inst] =
                          [@ EXCEPT !.in_use = FALSE, !.xport_hdl = "none"]]
    /\ UdpStep(h, [xport[h] EXCEPT !.pc = "deinit_ctx"])

\* the handle's context is cleared and auuth_xp_udp_deinit returns
udp_deinit_return(h) ==
    /\ xport[h].pc = "deinit_ctx"
    /\ UdpStep(h, [xport[h] EXCEPT !.pc = "deinited", !.context = NULL,
                                   !.ret = AUTH_SUCCESS])
    /\ UNCHANGED udp_xp_inst

NextUdp ==
    \E h \in Handles :
        \/ auth_xp_udp_init(h)
        \/ auth_xp_udp_get_instance(h)
        \/ get_instance_mark(h)
        \/ udp_init_setup(h)
        \/ udp_init_create_thread(h)
        \/ udp_recv_start(h)
        \/ udp_recv_loop(h)
        \/ udp_recv_datagram(h)
        \/ auuth_xp_udp_deinit(h)
        \/ udp_deinit_close(h)
        \/ auth_xp_udp_free_instance(h)
        \/ udp_deinit_return(h)

\* the application's transport handles, the protocol workers not started
InitUdp ==
    /\ Init
    /\ \A p \in Peers : api[p].opt = NoParam

SpecUdp == InitUdp /\ [][NextUdp]_vars

\* the receive thread of a handle is not running
RecvEnded(h) == xport[h].recv_thrd \in {"none", "exited"}

\* C24: when auuth_xp_udp_deinit has returned the receive thread of its
\* handle has ended, and an instance is released (in_use goes from true to
\* false) only when the receive thread of the releasing handle has ended.
C24_DeinitJoinsReceiveThread ==
    [][\A h \in Handles :
          /\ xport'[h].pc = "deinited" => RecvEnded(h)'
          /\ (xport[h].pc = "deinit_free" /\ xport'[h].pc = "deinit_ctx") => RecvEnded(h)]_vars

C24_DeinitReturnedThreadInRecvfrom ==
    \E h \in Handles :
        /\ xport[h].pc = "deinited"
        /\ xport[h].recv_thrd = "recvfrom"
        /\ ~udp_xp_inst[xport[h].xp_inst].in_use

InUse == {i \in Slots : udp_xp_inst[i].in_use}
Contexts == [h \in Handles |-> xport[h].context]

\* C25: at most NUM_AUTH_INSTANCES instances are in use; a scan of the pool
\* that finds every slot in use ends in the no-resource error, and the call
\* that returns it has changed no instance and no handle's context; the
\* instance that auth_xp_udp_free_instance releases is free for a later scan.
C25_PoolBoundAndNoResource ==
    /\ [](Cardinality(InUse) <= NUM_AUTH_INSTANCES)
    /\ [][\A h \in Handles :
             /\ (xport[h].pc = "get_instance" /\ xport'[h] # xport[h] /\ InUse = Slots) =>
                   /\ xport'[h].pc \in {"get_instance", "returned"}
                   /\ xport[h].cnt > NUM_AUTH_INSTANCES => xport'[h].ret = AUTH_ERROR_NO_RESOURCE
             /\ (xport'[h].ret = AUTH_ERROR_NO_RESOURCE /\ xport[h].ret = "none") =>
                   /\ udp_xp_inst' = udp_xp_inst
                   /\ Contexts' = Contexts
             /\ xport'[h].ret = AUTH_ERROR_NO_RESOURCE => xport'[h].context = NULL
             /\ (xport[h].pc = "deinit_free" /\ xport'[h].pc = "deinit_ctx") =>
                   ~udp_xp_inst'[xport[h].udp_inst].in_use]_vars

\* a call on handle k was refused with every slot taken, and after a deinit
\* the next call on k holds the slot the deinit released
C25_RefusedThenReacquired ==
    \E g, k \in Handles :
        /\ xport[k].calls = 2
        /\ xport[g].pc = "deinited"
        /\ xport[k].pc = "inited"
        /\ udp_xp_inst[xport[k].context].xport_hdl = k
        /\ xport[k].context = xport[g].udp_inst

\* the handles whose auth_xp_udp_init was handed slot i and that have not
\* released it yet
HoldersOf(i) ==
    {h \in Handles :
        /\ xport[h].pc \in {"setup", "create_thread", "inited", "deinit_close", "deinit_free"}
        /\ xport[h].udp_inst = i}

\* C29: for every interleaving of concurrent auth_xp_udp_init calls no two
\* calls are handed the same pool slot.
C29_SlotHandedToOneCall ==
    \A i \in Slots : Cardinality(HoldersOf(i)) <= 1

C29_TwoInitsReturnedSameSlot ==
    \E h, g \in Handles :
        /\ h # g
        /\ xport[h].pc = "inited" /\ xport[g].pc = "inited"
        /\ xport[h].context = xport[g].context
        /\ xport[h].calls = 1 /\ xport[g].calls = 1

(***************************************************************************)
(* The HAL's counting semaphore                                            *)
(***************************************************************************)
ATCA_SUCCESS == "ATCA_SUCCESS"
ATCA_GEN_FAIL == "ATCA_GEN_FAIL"

\* the semaphore hal_create_sem hands out when sem_open creates it
hal_create_sem(init_value, max_value) ==
    [NoSem EXCEPT !.value = init_value, !.max_sem_value = max_value]

SemStep(t, s, r) ==
    /\ sem' = [s EXCEPT !.thr[t] = r]
    /\ UNCHANGED <<auth_conn, keystate, pc, lv, cpc, wire, rxq, wireLog, cbLog,
                   observed, env, api, udp_xp_inst, xport, workers, srv>>

\* hal_give_sem is called
hal_give_sem(t) ==
    /\ sem.thr[t].pc = "idle"
    /\ sem.thr[t].calls < MaxSemCalls
    /\ SemStep(t, sem, [sem.thr[t] EXCEPT !.pc = "give_lock", !.calls = @ + 1,
                                          !.sem_val = 0, !.ret = 0])

\* a give that goes on without taking the mutex
GiveWithoutMutex(t) ==
    /\ sem.thr[t].pc = "give_lock"
    /\ SemStep(t, sem, [sem.thr[t] EXCEPT !.pc = "give_getvalue"])

\* pthread_mutex_lock(&sem_count_mutex): the caller gets the mutex when it
\* is free; a failing lock makes hal_give_sem return at once
give_mutex_lock(t) ==
    /\ sem.thr[t].pc = "give_lock"
    /\ \/ /\ sem.sem_count_mutex = "free"
          /\ SemStep(t, [sem EXCEPT !.sem_count_mutex = t],
                     [sem.thr[t] EXCEPT !.pc = "give_getvalue"])
       \/ SemStep(t, sem, [sem.thr[t] EXCEPT !.pc = "idle", !.ret = ATCA_GEN_FAIL])

\* sem_getvalue
give_getvalue(t) ==
    /\ sem.thr[t].pc = "give_getvalue"
    /\ SemStep(t, sem, [sem.thr[t] EXCEPT !.pc = "give_post", !.sem_val = sem.value])

\* sem_post, when the value read is below the maximum
give_post(t) ==
    /\ sem.thr[t].pc = "give_post"
    /\ IF sem.thr[t].ret = 0 /\ sem.thr[t].sem_val < sem.max_sem_value
       THEN SemStep(t, [sem EXCEPT !.value = @ + 1],
                    [sem.thr[t] EXCEPT !.pc = "give_unlock"])
       ELSE SemStep(t, sem, [sem.thr[t] EXCEPT !.pc = "give_unlock"])

\* pthread_mutex_unlock and the return
give_mutex_unlock(t) ==
    /\ sem.thr[t].pc = "give_unlock"
    /\ SemStep(t, [sem EXCEPT !.sem_count_mutex = "free"],
               [sem.thr[t] EXCEPT !.pc = "idle",
                   !.ret = IF @ = 0 THEN ATCA_SUCCESS ELSE ATCA_GEN_FAIL])

\* hal_wait_sem: sem_wait returns once it has decremented a positive value
hal_wait_sem(t) ==
    /\ sem.thr[t].pc = "idle"
    /\ sem.thr[t].calls < MaxSemCalls
    /\ sem.value > 0
    /\ SemStep(t, [sem EXCEPT !.value = @ - 1],
               [sem.thr[t] EXCEPT !.calls = @ + 1, !.ret = ATCA_SUCCESS])

NextSem ==
    \E t \in SemThreads :
        \/ hal_give_sem(t)
        \/ give_mutex_lock(t)
        \/ give_getvalue(t)
        \/ give_post(t)
        \/ give_mutex_unlock(t)
        \/ hal_wait_sem(t)

\* a semaphore created with init_value <= max_value; nothing else moves
InitSem ==
    /\ \E max_value \in 1..MaxSemValue :
          \E init_value \in 0..max_value :
             sem = hal_create_sem(init_value, max_value)
    /\ udp_xp_inst = [i \in Slots |-> ZeroInstance]
    /\ xport = [h \in Handles |-> IdleHandle]
    /\ workers = [p \in Peers |-> 0]
    /\ srv = NoServer
    /\ auth_conn = [p \in Peers |-> ZeroConn]
    /\ keystate = [p \in Peers |-> DefaultKeyState]
    /\ api = [p \in Peers |->
                [init |-> "none", flags |-> 0, cb |-> FALSE, opt |-> NoParam,
                 start |-> "none", cancel |-> "none", inits |-> 0]]
    /\ pc = [p \in Peers |-> "idle"]
    /\ lv = [p \in Peers |-> NoLocals]
    /\ cpc = [p \in Peers |-> "idle"]
    /\ wire = [p \in Peers |-> <<>>]
    /\ rxq = [p \in Peers |-> <<>>]
    /\ wireLog = <<>>
    /\ cbLog = [p \in Peers |-> <<>>]
    /\ observed = [p \in Peers |-> FALSE]
    /\ env = [k \in EnvKinds |-> 0]

SpecSem == InitSem /\ [][NextSem]_vars

TerminalStatuses ==
    {AUTH_STATUS_SUCCESSFUL, AUTH_STATUS_FAILED,
     AUTH_STATUS_AUTHENTICATION_FAILED, AUTH_STATUS_CANCELED}

\* auth_lib_start, called whenever the application likes: hal_create_thread
\* starts auth_chalresp_thread on the session, or fails; either way the call
\* returns AUTH_SUCCESS
StartCall(p) ==
    /\ workers[p] < MaxWorkers
    /\ \E created \in BOOLEAN :
          workers' = [workers EXCEPT ![p] = IF created THEN @ + 1 ELSE @]
    /\ api' = [api EXCEPT ![p].start = AUTH_SUCCESS]
    /\ UNCHANGED <<auth_conn, keystate, pc, lv, cpc, wire, rxq, wireLog, cbLog,
                   observed, env, udp_xp_inst, xport, sem, srv>>

\* a worker of the session sets its terminal status and returns from
\* auth_chalresp_thread
WorkerReturns(p) ==
    /\ workers[p] > 0
    /\ \E s \in TerminalStatuses :
          auth_conn' = [auth_conn EXCEPT ![p].curr_status = s]
    /\ workers' = [workers EXCEPT ![p] = @ - 1]
    /\ UNCHANGED <<keystate, pc, lv, cpc, wire, rxq, wireLog, cbLog,
                   observed, env, api, udp_xp_inst, xport, sem, srv>>

\* auth_lib_init called again on the session, with the arguments of the
\* first call
InitAgain(p) ==
    /\ api[p].inits < MaxInit
    /\ LET r == auth_lib_init(auth_conn[p], keystate[p], api[p].cb, api[p].opt, api[p].flags)
       IN  /\ auth_conn' = [auth_conn EXCEPT ![p] = r.conn]
           /\ keystate' = [keystate EXCEPT ![p] = r.ks]
           /\ api' = [api EXCEPT ![p] =
                        [@ EXCEPT !.init = r.ret, !.start = "none", !.cancel = "none",
                                  !.inits = @ + 1]]
    /\ UNCHANGED <<pc, lv, cpc, wire, rxq, wireLog, cbLog, observed, env, platform>>

NextStart ==
    \E p \in Peers :
        \/ InitAgain(p)
        \/ StartCall(p)
        \/ WorkerReturns(p)
        \/ CancelSetFlag(p)
        \/ CancelWriteStatus(p)
        \/ CancelCallback(p)

SpecStart == Init /\ [][NextStart]_vars

\* C26: at most one protocol worker of a session is alive at any time,
\* whatever the sequence of auth_lib_init, auth_lib_start and
\* auth_lib_cancel calls on the session.
C26_OneWorkerPerSession ==
    \A p \in Peers : workers[p] <= 1

C26_TwoWorkersOnOneSession ==
    \E p \in Peers :
        /\ workers[p] = 2
        /\ api[p].init = AUTH_SUCCESS
        /\ api[p].start = AUTH_SUCCESS

(***************************************************************************)
(* Cancellation under fair scheduling of the workers                       *)
(***************************************************************************)
\* the statements of the protocol worker of peer p
WorkerStep(p) ==
    \/ SetStatusWrite(p)
    \/ StatusCallback(p)
    \/ hal_random(p)
    \/ auth_client_send_challenge(p)
    \/ client_check_cancel(p)
    \/ client_recv_chal_resp(p)
    \/ client_verify(p)
    \/ client_recv_result(p)
    \/ server_recv_challenge(p)
    \/ server_send_chal_resp(p)
    \/ server_check_cancel(p)
    \/ server_recv_hdr(p)
    \/ server_recv_result_body(p)
    \/ server_recv_body(p)
    \/ server_send_result(p)

\* A worker thread that can take a step is scheduled eventually, and a
\* blocked auth_xport_recv returns when its AUTH_RX_TIMEOUT_MSEC window ends.
SpecCancel ==
    Init /\ [][Next]_vars /\ \A p \in Peers : WF_vars(WorkerStep(p))

Running(p) == pc[p] \notin {"idle", "no_thread", "done"}

\* a receive of worker p completes in this step (data, timeout or error)
\* while the cancellation flag is set
ReceiveCompletesCanceled(p) ==
    /\ pc[p] \in ReceivePoints
    /\ auth_conn[p].cancel_auth
    /\ <<pc[p], lv[p]>>' # <<pc[p], lv[p]>>

\* the flag is read after every receive that completes: with the flag set
\* the worker leaves the receive for its exit and sends nothing
CheckedAfterEveryReceive ==
    [][\A p \in Peers :
          ReceiveCompletesCanceled(p) =>
              /\ (Decided(p) \/ Done(p))'
              /\ SentBy(p)' = SentBy(p)]_vars

\* C28: once the cancellation flag of a session is set while its worker is
\* running, the worker eventually returns; a receive that completes with
\* the flag set takes the worker out of its receive loop, so it does not
\* stay in the loop on timeouts.
C28_CancelEventuallyEffective ==
    /\ \A p \in Peers : (auth_conn[p].cancel_auth /\ Running(p)) ~> Done(p)
    /\ CheckedAfterEveryReceive

\* a worker that was waiting in a receive when the flag was set has read
\* the flag and returned
C28_CanceledInReceiveAndReturned ==
    \E p \in Peers :
        /\ Done(p) /\ observed[p]
        /\ cpc[p] = "returned"
        /\ SentBy(p) = <<>>
        /\ ~auth_conn[p].is_client

\* C27: a cancellation flag that is set when the worker begins stops the
\* worker before it sends any frame, message 1 of the client included.
C27_FlagSetAtStartStopsEverySend ==
    \A p \in Peers :
        []((pc[p] = "idle" /\ auth_conn[p].cancel_auth) => [](SentBy(p) = <<>>))

\* auth_lib_cancel had set the flag and invoked the callback before the
\* worker's first callback, and the client has put message 1 on the wire
C27_ClientSentAfterCancel ==
    /\ cbLog["client"] # <<>>
    /\ cbLog["client"][1].by = "caller"
    /\ Len(SentBy("client")) = 1
    /\ MsgId(SentBy("client")[1].bytes) = AUTH_CLIENT_CHAL_MSG_ID
    /\ Done("client")

(***************************************************************************)
(* The UDP receive thread, statement by statement                          *)
(***************************************************************************)
\* handles of the receive-thread specification
RecvHandles == {"h1", "h2"}

\* xp_inst = auth_xport_get_context(xport_hdl); NULL ends the thread
recv_get_instance(h) ==
    /\ xport[h].recv_thrd = "created"
    /\ IF xport[h].context = NULL
       THEN UdpStep(h, [xport[h] EXCEPT !.recv_thrd = "exited"])
       ELSE UdpStep(h, [xport[h] EXCEPT !.recv_thrd = "socket",
                                        !.xp_inst = xport[h].context])
    /\ UNCHANGED udp_xp_inst

\* fd = socket(...); on failure free(rx_buf) is called on the pointer that
\* has not been assigned yet, and the thread returns
recv_socket(h) ==
    /\ xport[h].recv_thrd = "socket"
    /\ \E ok \in BOOLEAN :
          IF ok
          THEN UdpStep(h, [xport[h] EXCEPT !.recv_thrd = "bind", !.fd = "open"])
          ELSE UdpStep(h, [xport[h] EXCEPT !.recv_thrd = "exited",
                                           !.rx_buf = "freed_unallocated"])
    /\ UNCHANGED udp_xp_inst

\* bind(fd, ...); on failure the thread returns
recv_bind(h) ==
    /\ xport[h].recv_thrd = "bind"
    /\ \E ok \in BOOLEAN :
          UdpStep(h, [xport[h] EXCEPT !.recv_thrd = IF ok THEN "malloc" ELSE "exited"])
    /\ UNCHANGED udp_xp_inst

\* rx_buf = malloc(UDP_LINK_MTU); on failure close(fd) and return
recv_malloc(h) ==
    /\ xport[h].recv_thrd = "malloc"
    /\ \E ok \in BOOLEAN :
          IF ok
          THEN UdpStep(h, [xport[h] EXCEPT !.recv_thrd = "loop", !.rx_buf = "allocated"])
          ELSE UdpStep(h, [xport[h] EXCEPT !.recv_thrd = "exited", !.fd = "closed"])
    /\ UNCHANGED udp_xp_inst

\* while (!xp_inst->shutdown_rx_thread); after the loop free(rx_buf), return
recv_loop_test(h) ==
    /\ xport[h].recv_thrd = "loop"
    /\ IF udp_xp_inst[xport[h].xp_inst].shutdown_rx_thread
       THEN UdpStep(h, [xport[h] EXCEPT !.recv_thrd = "exited", !.rx_buf = "freed"])
       ELSE UdpStep(h, [xport[h] EXCEPT !.recv_thrd = "recvfrom"])
    /\ UNCHANGED udp_xp_inst

\* recvfrom returns: -1 goes back to the loop test, a datagram goes on to
\* the second test of the shutdown flag
recv_recvfrom(h) ==
    /\ xport[h].recv_thrd = "recvfrom"
    /\ \/ UdpStep(h, [xport[h] EXCEPT !.recv_thrd = "loop"])
       \/ /\ xport[h].queued < MaxDatagrams
          /\ UdpStep(h, [xport[h] EXCEPT !.recv_thrd = "check"])
    /\ UNCHANGED udp_xp_inst

\* if (!xp_inst->shutdown_rx_thread)
recv_check_shutdown(h) ==
    /\ xport[h].recv_thrd = "check"
    /\ UdpStep(h, [xport[h] EXCEPT !.recv_thrd =
                      IF udp_xp_inst[xport[h].xp_inst].shutdown_rx_thread
                      THEN "loop" ELSE "assemble"])
    /\ UNCHANGED udp_xp_inst

\* auth_message_get_fragment accepts the datagram and auth_message_assemble
\* puts it into the receive queue of the thread's handle, or the datagram is
\* not a whole frame and is dropped
recv_assemble(h) ==
    /\ xport[h].recv_thrd = "assemble"
    /\ \E whole \in BOOLEAN :
          UdpStep(h, [xport[h] EXCEPT !.recv_thrd = "loop",
                                      !.queued = IF whole THEN @ + 1 ELSE @])
    /\ UNCHANGED udp_xp_inst

NextRecv ==
    \E h \in RecvHandles :
        \/ auth_xp_udp_init(h)
        \/ auth_xp_udp_get_instance(h)
        \/ get_instance_mark(h)
        \/ udp_init_setup(h)
        \/ udp_init_create_thread(h)
        \/ recv_get_instance(h)
        \/ recv_socket(h)
        \/ recv_bind(h)
        \/ recv_malloc(h)
        \/ recv_loop_test(h)
        \/ recv_recvfrom(h)
        \/ recv_check_shutdown(h)
        \/ recv_assemble(h)
        \/ auuth_xp_udp_deinit(h)
        \/ udp_deinit_close(h)
        \/ auth_xp_udp_free_instance(h)
        \/ udp_deinit_return(h)

SpecRecv == InitUdp /\ [][NextRecv]_vars

\* C31: when the receive thread has returned, the socket it opened is
\* closed, a receive buffer it allocated has been freed, and no buffer was
\* freed that had not been allocated.
C31_RecvReleasesItsResources ==
    \A h \in RecvHandles :
        xport[h].recv_thrd = "exited" =>
            /\ xport[h].fd # "open"
            /\ xport[h].rx_buf \in {"unallocated", "freed"}

\* the thread left its loop on shutdown and returned with its socket open
C31_ReturnedWithSocketOpen ==
    \E h \in RecvHandles :
        /\ xport[h].recv_thrd = "exited"
        /\ xport[h].rx_buf = "freed"
        /\ xport[h].fd = "open"

\* the socket could not be opened and free was called on the unassigned
\* buffer pointer
FreedUnallocatedBuffer ==
    \E h \in RecvHandles :
        /\ xport[h].recv_thrd = "exited"
        /\ xport[h].rx_buf = "freed_unallocated"

(***************************************************************************)
(* Soundness and agreement of the outcomes                                 *)
(***************************************************************************)
\* worker p has chosen successful as the session's final status
ChoseSuccessful(p) == Decided(p) /\ lv[p].arg = AUTH_STATUS_SUCCESSFUL

\* C32: a server chooses successful only when the body of the message it
\* read at step 3 is the hash of its own nonce under its active key; a
\* client goes on past message 2 only when the response in it is the hash
\* of the client's own nonce under its active key, and chooses successful
\* only when it has gone on (it has sent message 3) and the frame it then
\* read has a valid SOH, id 4 and body 0.
C32_SuccessfulOnlyAfterVerification ==
    /\ [](\A p \in Peers :
             ChoseSuccessful(p) =>
                IF auth_conn[p].is_client
                THEN /\ FramesBy(p, AUTH_CLIENT_CHALRESP_MSG_ID) # {}
                     /\ Len(lv[p].buf) = SizeofResult
                     /\ auth_check_msg(Hdr(lv[p].buf), AUTH_CHALRESP_RESULT_MSG_ID)
                     /\ Body(lv[p].buf) = <<Lit(0)>>
                ELSE Body(lv[p].buf)
                        = auth_chalresp_hash(lv[p].random_chal, ActiveKey(keystate[p])))
    /\ [][\A p \in Peers :
             (pc[p] = "client_verify" /\ pc'[p] = "client_recv_result") =>
                 ServerResponseOf(lv[p].buf)
                    = auth_chalresp_hash(lv[p].random_chal, ActiveKey(keystate[p]))]_vars

\* both sessions are successful although a forged frame was delivered
C32_BothSuccessfulDespiteForgery ==
    /\ ChoseSuccessful("client") /\ ChoseSuccessful("server")
    /\ env["tamper"] = 1

\* C33: with the same key on both sides, no lost, altered or failed
\* transfer, no hash failure and no cancellation, the server never ends
\* successful while the client ends with another status.
C33_OutcomesAgree ==
    (SameKey /\ Undisturbed /\ ChoseSuccessful("server") /\ Decided("client")) =>
        lv["client"].arg = AUTH_STATUS_SUCCESSFUL

\* the server is successful and the client, whose one receive of message 4
\* ended before the whole frame was there, is authentication-failed
C33_ServerSuccessfulClientFailed ==
    /\ SameKey /\ Undisturbed
    /\ Done("server") /\ auth_conn["server"].curr_status = AUTH_STATUS_SUCCESSFUL
    /\ Done("client") /\ auth_conn["client"].curr_status = AUTH_STATUS_AUTHENTICATION_FAILED
    /\ Len(lv["client"].buf) < SizeofResult

\* what auth_lib_get_status returns
auth_lib_get_status(p) == auth_conn[p].curr_status

\* C34: a terminal current status is never overwritten by a non-terminal
\* one, and once the worker has returned auth_lib_get_status returns a
\* terminal status.
C34_StatusNeverRegresses ==
    /\ [][\A p \in Peers :
             auth_lib_get_status(p) \in TerminalStatus =>
                 auth_lib_get_status(p)' \in TerminalStatus]_vars
    /\ [](\A p \in Peers : Done(p) => auth_lib_get_status(p) \in TerminalStatus)

\* auth_lib_cancel has returned, the client worker has returned, and the
\* status is the worker's started, written over the caller's canceled
C34_CanceledOverwrittenByStarted ==
    /\ Done("client")
    /\ cpc["client"] = "returned"
    /\ \E i \in DOMAIN cbLog["client"] : cbLog["client"][i].by = "caller"
    /\ auth_lib_get_status("client") = AUTH_STATUS_STARTED

\* how many callback invocations of session p passed v, and how many
\* auth_lib_set_status calls that reached the callback were made with v
PassedCount(p, v) == Cardinality({i \in DOMAIN cbLog[p] : cbLog[p][i].status = v})
CalledCount(p, v) == Cardinality({i \in DOMAIN cbLog[p] : cbLog[p][i].call = v})

\* C35: every invocation of the status callback made by
\* auth_lib_set_status(session, s) passes s, and for every value the
\* invocations that carried it are as many as the calls made with it.
C35_CallbackPassesArgument ==
    \A p \in Peers :
        /\ \A i \in DOMAIN cbLog[p] : cbLog[p][i].status = cbLog[p][i].call
        /\ \A v \in TerminalStatus \cup {AUTH_STATUS_STARTED, AUTH_STATUS_IN_PROCESS} :
              PassedCount(p, v) = CalledCount(p, v)

\* the worker's auth_lib_set_status(started) invoked the callback with
\* canceled, which auth_lib_cancel had stored in between
C35_StartedReportedAsCanceled ==
    \E p \in Peers : \E i \in DOMAIN cbLog[p] :
        /\ cbLog[p][i].by = "worker"
        /\ cbLog[p][i].call = AUTH_STATUS_STARTED
        /\ cbLog[p][i].status = AUTH_STATUS_CANCELED

\* C37: once auuth_xp_udp_deinit has returned for a handle, the receive
\* thread started for that handle puts nothing more into the handle's
\* receive queue.
C37_NoDeliveryAfterDeinit ==
    [][\A h \in RecvHandles :
          xport[h].pc = "deinited" => xport'[h].queued = xport[h].queued]_vars

\* deinit has returned while the thread, which read the shutdown flag as
\* clear before deinit set it, is about to call auth_message_assemble
C37_AssemblePendingAfterDeinit ==
    \E h \in RecvHandles :
        /\ xport[h].pc = "deinited"
        /\ xport[h].recv_thrd = "assemble"
        /\ udp_xp_inst[xport[h].xp_inst].shutdown_rx_thread

\* the receive threads that have read slot i from their handle's context
\* and have not returned
AliveOn(i) ==
    {h \in Handles :
        /\ xport[h].recv_thrd \notin {"none", "created", "exited"}
        /\ xport[h].xp_inst = i}

\* C38: at most one receive thread is alive for a pool slot at any time.
C38_OneReceiveThreadPerSlot ==
    \A i \in Slots : Cardinality(AliveOn(i)) <= 1

\* a handle was deinitialised while its thread waited in recvfrom; a later
\* init took the same slot, cleared the shutdown flag and started a second
\* thread; both threads are in the loop of that slot
C38_EarlierThreadRevived ==
    \E g, h \in RecvHandles :
        /\ xport[g].pc = "deinited"
        /\ xport[h].pc = "inited"
        /\ xport[h].context = xport[g].xp_inst
        /\ {g, h} \subseteq AliveOn(xport[h].context)
        /\ xport[g].recv_thrd = "recvfrom"
        /\ ~udp_xp_inst[xport[h].context].shutdown_rx_thread

\* C39: an auth_lib_init call that returns the invalid-parameter error
\* because the status callback is NULL or the flags are inconsistent leaves
\* the session object and the process's key state as they were.
C39_FailedInitChangesNothing ==
    [][\A p \in Peers :
          (/\ api'[p].inits = api[p].inits + 1
           /\ api'[p].init = AUTH_ERROR_INVALID_PARAM
           /\ (~api'[p].cb \/ ~auth_lib_checkflags(api'[p].flags))) =>
              /\ auth_conn'[p] = auth_conn[p]
              /\ keystate' = keystate]_vars

\* the second init of a session was refused; the session still has the
\* callback and the process the overriding key of the first init
C39_RefusedSecondInit ==
    \E p \in Peers :
        /\ api[p].inits = 2
        /\ api[p].init = AUTH_ERROR_INVALID_PARAM
        /\ auth_conn[p].status_cb /\ auth_conn[p] # UsedConn
        /\ keystate[p].shared_key = "chalresp_key"

(***************************************************************************)
(* hal_wait_sem_timeout                                                    *)
(***************************************************************************)
ATCA_TIMEOUT == "ATCA_TIMEOUT"

\* values CLOCK_REALTIME may show when clock_gettime is called: tv_sec and
\* a tv_nsec in 0..999999999
ClockSeconds == {0, 1}
ClockNanoseconds ==
    {0, 1, 1000000, 499999999, 500000000, 500000001, 999000000, 999999999}
\* the timeouts callers pass (unsigned, 32 bits), in milliseconds
TimeoutsMsec == {0, 1, 499, 500, 999, 1000, 1001, 1500, 3000, 2147483647}

TimedStep(r, value) ==
    /\ sem' = [sem EXCEPT !.timed = r, !.value = value]
    /\ UNCHANGED <<auth_conn, keystate, pc, lv, cpc, wire, rxq, wireLog, cbLog,
                   observed, env, api, udp_xp_inst, xport, workers, srv>>

\* the deadline hal_wait_sem_timeout builds: tv_sec += timeout_msec / 1000u;
\* tv_nsec += (timeout_msec % 1000) * 1000000u (the product is at most
\* 999000000 and the sum at most 1998999999: neither wraps)
Deadline(now_sec, now_nsec, timeout_msec) ==
    [tv_sec |-> now_sec + (timeout_msec \div 1000),
     tv_nsec |-> now_nsec + ((timeout_msec % 1000) * 1000000)]

\* hal_wait_sem_timeout up to its call of sem_timedwait
hal_wait_sem_timeout ==
    /\ sem.timed.pc = "idle"
    /\ sem.timed.ret = "none"
    /\ \E now_sec \in ClockSeconds, now_nsec \in ClockNanoseconds,
          timeout_msec \in TimeoutsMsec :
          LET d == Deadline(now_sec, now_nsec, timeout_msec)
          IN  TimedStep([sem.timed EXCEPT !.pc = "sem_timedwait",
                                          !.timeout_msec = timeout_msec,
                                          !.tv_sec = d.tv_sec, !.tv_nsec = d.tv_nsec],
                        sem.value)

\* sem_timedwait and the return value made from its result and errno: a
\* positive semaphore is taken (an implementation may look at the deadline
\* first); with the semaphore at zero a tv_nsec outside 0..999999999 fails
\* with EINVAL at once, and a valid deadline passes (ETIMEDOUT) unless the
\* semaphore is given in time
sem_timedwait ==
    /\ sem.timed.pc = "sem_timedwait"
    /\ LET valid == sem.timed.tv_nsec \in 0..999999999
           return(r, value) == TimedStep([sem.timed EXCEPT !.pc = "idle", !.ret = r], value)
       IN  \/ /\ sem.value > 0
              /\ return(ATCA_SUCCESS, sem.value - 1)
           \/ /\ ~valid
              /\ return(ATCA_GEN_FAIL, sem.value)
           \/ /\ sem.value = 0 /\ valid
              /\ return(ATCA_TIMEOUT, sem.value)

NextTimedWait ==
    \/ hal_wait_sem_timeout
    \/ sem_timedwait

SpecTimedWait == InitSem /\ [][NextTimedWait]_vars

\* C40: the tv_nsec that hal_wait_sem_timeout passes to sem_timedwait is in
\* 0..999999999, and a timed wait on a semaphore that stays at zero returns
\* ATCA_TIMEOUT, never the general failure.
C40_DeadlineIsValid ==
    /\ sem.timed.pc = "sem_timedwait" => sem.timed.tv_nsec \in 0..999999999
    /\ (sem.timed.ret # "none" /\ sem.value = 0 /\ sem.timed.ret # ATCA_SUCCESS) =>
           sem.timed.ret = ATCA_TIMEOUT

\* a wait of 500 ms on an empty semaphore has returned the general failure
C40_HalfSecondWaitFailed ==
    /\ sem.timed.ret = ATCA_GEN_FAIL
    /\ sem.timed.timeout_msec = 500
    /\ sem.timed.tv_nsec >= 1000000000
    /\ sem.value = 0

(***************************************************************************)
(* A server process with two sessions, and a party without the key        *)
(***************************************************************************)
\* the 32-byte values a digest can be made of
Hashable(b) == \E n \in DOMAIN HashInputs : HashInputs[n] = b

\* The frames the adversary can put together for a session: a header it
\* chooses over 32 bytes it has seen (its own value, a nonce or a digest a
\* session has sent; as a challenge it tries its own value and the nonces),
\* or a result frame.  It cannot make a digest: it does not hold the key.
AdversaryChallengeFrames ==
    {Header(SOH_LO, SOH_HI, id) \o b :
        id \in {AUTH_CLIENT_CHAL_MSG_ID, AUTH_CLIENT_CHALRESP_MSG_ID},
        b \in {c \in srv.seen : Hashable(c)}}
AdversaryResponseFrames ==
    {ClientChalRespMsg(b) : b \in srv.seen}
        \cup {Header(SOH_LO, SOH_HI, AUTH_CHALRESP_RESULT_MSG_ID) \o <<Lit(1)>>}

ServerStep(s, r, seen, draws) ==
    /\ srv' = [srv EXCEPT !.sess[s] = r, !.seen = seen, !.draws = draws]
    /\ UNCHANGED <<auth_conn, keystate, pc, lv, cpc, wire, rxq, wireLog, cbLog,
                   observed, env, api, udp_xp_inst, xport, sem, workers>>

\* auth_chalresp_server begins in a session of the process: hal_random takes
\* the next 32 values of the process's rand() sequence
session_hal_random(s) ==
    /\ srv.sess[s].pc = "idle"
    /\ srv.sess[s].status = "none"
    /\ ServerStep(s, [srv.sess[s] EXCEPT !.pc = "recv_challenge",
                                         !.random_chal = NonceBytes(srv.draws)],
                  srv.seen, srv.draws + 1)

\* auth_server_recv_challenge on a frame the adversary sends: the header is
\* checked, the digest of the frame's challenge and the process's key is
\* made, and message 2 (digest and the session's nonce) goes back
session_recv_challenge(s) ==
    /\ srv.sess[s].pc = "recv_challenge"
    /\ \E chal \in AdversaryChallengeFrames :
          IF ~auth_check_msg(Hdr(chal), AUTH_CLIENT_CHAL_MSG_ID)
          THEN ServerStep(s, [srv.sess[s] EXCEPT !.pc = "idle",
                                                 !.status = AUTH_STATUS_FAILED],
                          srv.seen, srv.draws)
          ELSE LET server_response ==
                       auth_chalresp_hash(Body(chal), ActiveKey(keystate["server"]))
               IN  ServerStep(s, [srv.sess[s] EXCEPT !.pc = "recv_chalresp"],
                              srv.seen \cup {server_response, srv.sess[s].random_chal},
                              srv.draws)

\* auth_server_recv_chalresp on a frame the adversary sends: a result frame
\* ends the session as authentication-failed; of any other frame the 32
\* bytes after the header are compared with the digest of the session's
\* nonce and the process's key
session_recv_chalresp(s) ==
    /\ srv.sess[s].pc = "recv_chalresp"
    /\ \E client_resp \in AdversaryResponseFrames :
          LET hash == auth_chalresp_hash(srv.sess[s].random_chal,
                                         ActiveKey(keystate["server"]))
              status == IF MsgId(client_resp) = Lit(AUTH_CHALRESP_RESULT_MSG_ID)
                        THEN AUTH_STATUS_AUTHENTICATION_FAILED
                        ELSE IF ResultOf(hash, Body(client_resp)) = 0
                             THEN AUTH_STATUS_SUCCESSFUL
                             ELSE AUTH_STATUS_AUTHENTICATION_FAILED
          IN  ServerStep(s, [srv.sess[s] EXCEPT !.pc = "idle", !.status = status],
                         srv.seen, srv.draws)

NextReflect ==
    \E s \in ServerSessions :
        \/ session_hal_random(s)
        \/ session_recv_challenge(s)
        \/ session_recv_chalresp(s)

SpecReflect == Init /\ [][NextReflect]_vars

\* C36: a party that does not hold the key, may open sessions against the
\* server process and may send what it has seen, drives no server session
\* to the status successful.
C36_NoSuccessWithoutKey ==
    \A s \in ServerSessions : srv.sess[s].status # AUTH_STATUS_SUCCESSFUL

\* the first session is successful on the digest of its nonce that the
\* second session made when the nonce was sent to it as a challenge
C36_ReflectedDigestAccepted ==
    /\ srv.sess["s1"].status = AUTH_STATUS_SUCCESSFUL
    /\ srv.sess["s1"].random_chal = NonceBytes(0)
    /\ srv.sess["s2"].random_chal = NonceBytes(1)
    /\ srv.sess["s2"].pc = "recv_chalresp"
    /\ auth_chalresp_hash(NonceBytes(0), ActiveKey(keystate["server"])) \in srv.seen
=============================================================================
